---------------------------- MODULE Spec2Model ----------------------------
(***************************************************************************)
(* A model of @vibeclasses/docstocode-types: the SimpleValidator engine,   *)
(* the entity schemas, the typed validators and the status-transition      *)
(* tables.                                                                 *)
(*                                                                         *)
(* JavaScript values are tagged records [t, v]: t is the runtime kind and  *)
(* v the payload.  An object's payload is the sequence of its own          *)
(* <<key, value>> entries in insertion order; an array's payload is the    *)
(* sequence of its elements.  Numbers are integers, odd multiples of one   *)
(* half, the infinities and NaN.  Strings are TLA+                         *)
(* strings, error messages are built by concatenation as the template      *)
(* literals of the source build them.                                      *)
(***************************************************************************)
EXTENDS Integers, Sequences, FiniteSets, TLC

VARIABLES
    data,       \* the value the caller holds and passes to the library
    call,       \* the exported function called last ("none" before any call)
    arg,        \* the second argument of that call (newStatus), else Undefined
    outcome,    \* what that call did: a returned value or a raised error
    removed,    \* the required field the caller deleted from a record that passed
    trail,      \* the statuses the item went through by permitted transitions
    extracted,  \* the collection of accepted project data the value was taken from
    job,        \* per caller: the exported function it calls and its arguments
    stack,      \* per caller: the frames of its running call, innermost last
    store,      \* the error list of every invocation, by its location
    visits,     \* per caller: the invocations of its running call, in order
    returned,   \* per caller: the outcome of its latest completed call
    first       \* per caller: the outcome of its first completed call

apiVars == <<data, call, arg, outcome, removed, trail, extracted>>

engineVars == <<job, stack, store, visits, returned, first>>

vars == <<data, call, arg, outcome, removed, trail, extracted,
          job, stack, store, visits, returned, first>>

---------------------------------------------------------------------------
(* JavaScript values *)

Undefined == [t |-> "undefined", v |-> 0]
Null == [t |-> "null", v |-> 0]
Str(s) == [t |-> "string", v |-> s]
Num(n) == [t |-> "number", v |-> n]
Bool(b) == [t |-> "boolean", v |-> b]
Arr(elems) == [t |-> "array", v |-> elems]
Obj(entries) == [t |-> "object", v |-> entries]

\* typeof x
typeof(x) ==
    CASE x.t = "null" -> "object"
      [] x.t = "array" -> "object"
      [] x.t \in {"half", "infinity", "nan"} -> "number"
      [] OTHER -> x.t

\* Numbers that are no integers: k/2 for an odd k, the two infinities
\* (sign 1 or -1) and NaN
Half(k) == [t |-> "half", v |-> k]
Infinity(sign) == [t |-> "infinity", v |-> sign]
NaN == [t |-> "nan", v |-> 0]

\* Twice a finite number
Twice(x) == IF x.t = "half" THEN x.v ELSE 2 * x.v

\* a < b on numbers: false when either side is NaN
LessThan(a, b) ==
    IF a.t = "nan" \/ b.t = "nan" THEN FALSE
    ELSE IF a.t = "infinity" THEN a.v = -1 /\ b # a
    ELSE IF b.t = "infinity" THEN b.v = 1
    ELSE Twice(a) < Twice(b)

\* Array.isArray(x)
IsArray(x) == x.t = "array"

Digits == <<"0", "1", "2", "3", "4", "5", "6", "7", "8", "9">>

RECURSIVE NatToString(_)
NatToString(n) ==
    IF n < 10 THEN Digits[n + 1]
    ELSE NatToString(n \div 10) \o Digits[(n % 10) + 1]

\* String(n) for an integer n
IntToString(n) == IF n < 0 THEN "-" \o NatToString(0 - n) ELSE NatToString(n)

RECURSIVE Join(_, _)
\* Array.prototype.join on a sequence of strings
Join(strs, sep) ==
    IF Len(strs) = 0 THEN ""
    ELSE IF Len(strs) = 1 THEN strs[1]
    ELSE strs[1] \o sep \o Join(Tail(strs), sep)

RECURSIVE TemplateString(_)
\* The string a template literal `${x}` produces
TemplateString(x) ==
    CASE x.t = "string" -> x.v
      [] x.t = "number" -> IntToString(x.v)
      [] x.t = "boolean" -> IF x.v THEN "true" ELSE "false"
      [] x.t = "null" -> "null"
      [] x.t = "undefined" -> "undefined"
      [] x.t = "array" ->
            Join([i \in 1..Len(x.v) |->
                    IF x.v[i].t \in {"null", "undefined"} THEN ""
                    ELSE TemplateString(x.v[i])], ",")
      [] OTHER -> "[object Object]"

\* Object.entries(x) of a non-null value of typeof 'object'
Entries(x) ==
    IF x.t = "array"
    THEN [i \in 1..Len(x.v) |-> <<IntToString(i - 1), x.v[i]>>]
    ELSE x.v

\* key in x, for a non-null value of typeof 'object'
In(key, x) ==
    IF x.t = "array"
    THEN key = "length" \/ \E i \in 1..Len(x.v) : IntToString(i - 1) = key
    ELSE \E i \in 1..Len(x.v) : x.v[i][1] = key

\* x[key] (x.key) for a value that is neither null nor undefined
Get(x, key) ==
    IF x.t = "object" /\ \E i \in 1..Len(x.v) : x.v[i][1] = key
    THEN x.v[CHOOSE i \in 1..Len(x.v) : x.v[i][1] = key][2]
    ELSE Undefined

\* delete x[key]
Delete(x, key) ==
    Obj(SelectSeq(x.v, LAMBDA e : e[1] # key))

\* x[key] = val: an own key keeps its place, a new key goes last
Set(x, key, val) ==
    IF \E i \in 1..Len(x.v) : x.v[i][1] = key
    THEN Obj([i \in 1..Len(x.v) |->
                IF x.v[i][1] = key THEN <<key, val>> ELSE x.v[i]])
    ELSE Obj(Append(x.v, <<key, val>>))

---------------------------------------------------------------------------
(* Regular expressions of the schemas *)

LowerChars == {"a", "b", "c", "d", "e", "f", "g", "h", "i", "j", "k", "l", "m",
               "n", "o", "p", "q", "r", "s", "t", "u", "v", "w", "x", "y", "z"}
UpperChars == {"A", "B", "C", "D", "E", "F", "G", "H", "I", "J", "K", "L", "M",
               "N", "O", "P", "Q", "R", "S", "T", "U", "V", "W", "X", "Y", "Z"}
DigitChars == {"0", "1", "2", "3", "4", "5", "6", "7", "8", "9"}

ID_PATTERN == "^[a-zA-Z0-9_-]+$"
VERSION_PATTERN == "^\\d+\\.\\d+\\.\\d+(-[a-zA-Z0-9]+)?$"
NAME_PATTERN == "^[a-zA-Z]+$"

CharAt(s, i) == SubSeq(s, i, i)

RECURSIVE SkipWhile(_, _, _)
\* The first position at or after i whose character is outside class
SkipWhile(s, i, class) ==
    IF i <= Len(s) /\ CharAt(s, i) \in class
    THEN SkipWhile(s, i + 1, class)
    ELSE i

\* Position after one or more characters of class from i; 0 when there is none
Plus(s, i, class) ==
    IF i = 0 THEN 0
    ELSE LET j == SkipWhile(s, i, class) IN IF j > i THEN j ELSE 0

\* Position after the literal character c at i; 0 when it is not there
Lit(s, i, c) ==
    IF i # 0 /\ i <= Len(s) /\ CharAt(s, i) = c THEN i + 1 ELSE 0

\* new RegExp(pattern).test(s)
RegExpTest(pattern, s) ==
    CASE pattern = ID_PATTERN ->
            Plus(s, 1, LowerChars \cup UpperChars \cup DigitChars \cup {"_", "-"})
                = Len(s) + 1
      [] pattern = VERSION_PATTERN ->
            LET core == Plus(s, Lit(s, Plus(s, Lit(s, Plus(s, 1, DigitChars), "."),
                                            DigitChars), "."), DigitChars)
                pre == Plus(s, Lit(s, core, "-"),
                            LowerChars \cup UpperChars \cup DigitChars)
            IN  core # 0 /\ (core = Len(s) + 1 \/ pre = Len(s) + 1)
      [] pattern = NAME_PATTERN ->
            Plus(s, 1, LowerChars \cup UpperChars) = Len(s) + 1


---------------------------------------------------------------------------
(* Constant lists and transition tables (types.ts) *)

PRIORITIES == <<"low", "medium", "high", "critical">>
FEATURE_STATUSES == <<"backlog", "planning", "in-progress", "testing", "completed">>
BUG_STATUSES == <<"open", "in-progress", "resolved", "closed", "wont-fix">>
TASK_STATUSES == <<"todo", "in-progress", "blocked", "completed">>
SEVERITIES == <<"low", "medium", "high", "critical">>

\* A table that forgets the way back from testing
FeatureTransitionsNoRework ==
    ("backlog" :> <<"planning">>)
    @@ ("planning" :> <<"in-progress", "backlog">>)
    @@ ("in-progress" :> <<"testing", "planning">>)
    @@ ("testing" :> <<"completed">>)
    @@ ("completed" :> <<>>)

\* A table that lets work in progress be completed without testing
FeatureTransitionsSkipTesting ==
    ("backlog" :> <<"planning">>)
    @@ ("planning" :> <<"in-progress", "backlog">>)
    @@ ("in-progress" :> <<"testing", "planning", "completed">>)
    @@ ("testing" :> <<"completed", "in-progress">>)
    @@ ("completed" :> <<>>)

FEATURE_STATUS_TRANSITIONS ==
    ("backlog" :> <<"planning">>)
    @@ ("planning" :> <<"in-progress", "backlog">>)
    @@ ("in-progress" :> <<"testing", "planning">>)
    @@ ("testing" :> <<"completed", "in-progress">>)
    @@ ("completed" :> <<>>)

\* A table in which a bug that will not be fixed stays so
BugTransitionsWontFixFinal ==
    ("open" :> <<"in-progress", "wont-fix">>)
    @@ ("in-progress" :> <<"resolved", "open">>)
    @@ ("resolved" :> <<"closed", "open">>)
    @@ ("closed" :> <<"open">>)
    @@ ("wont-fix" :> <<>>)

BUG_STATUS_TRANSITIONS ==
    ("open" :> <<"in-progress", "wont-fix">>)
    @@ ("in-progress" :> <<"resolved", "open">>)
    @@ ("resolved" :> <<"closed", "open">>)
    @@ ("closed" :> <<"open">>)
    @@ ("wont-fix" :> <<"open">>)

\* A table that lets a blocked task be completed
TaskTransitionsBlockedCompletes ==
    ("todo" :> <<"in-progress">>)
    @@ ("in-progress" :> <<"blocked", "completed", "todo">>)
    @@ ("blocked" :> <<"in-progress", "todo", "completed">>)
    @@ ("completed" :> <<>>)

\* A table that lets a completed task be reopened
TaskTransitionsReopen ==
    ("todo" :> <<"in-progress">>)
    @@ ("in-progress" :> <<"blocked", "completed", "todo">>)
    @@ ("blocked" :> <<"in-progress", "todo">>)
    @@ ("completed" :> <<"todo">>)

TASK_STATUS_TRANSITIONS ==
    ("todo" :> <<"in-progress">>)
    @@ ("in-progress" :> <<"blocked", "completed", "todo">>)
    @@ ("blocked" :> <<"in-progress", "todo">>)
    @@ ("completed" :> <<>>)

---------------------------------------------------------------------------
(* Schemas (schemas.ts).  A schema node is a record holding exactly the    *)
(* keywords the source writes; an absent keyword is an absent field.       *)

\* { ...a, ...b }
Spread(a, b) ==
    [k \in DOMAIN a \cup DOMAIN b |-> IF k \in DOMAIN b THEN b[k] ELSE a[k]]

createEnumSchema(values) == [type |-> "string", enum |-> values]

BASE_ITEM_SCHEMA ==
    [type |-> "object",
     required |-> <<"id", "title", "description", "status", "priority",
                    "createdAt", "updatedAt">>,
     properties |->
        [id |-> [type |-> "string", minLength |-> 1, pattern |-> ID_PATTERN],
         title |-> [type |-> "string", minLength |-> 1, maxLength |-> 200],
         description |-> [type |-> "string", maxLength |-> 2000],
         priority |-> createEnumSchema(PRIORITIES),
         createdAt |-> [type |-> "string", format |-> "date-time"],
         updatedAt |-> [type |-> "string", format |-> "date-time"]],
     additionalProperties |-> FALSE]

\* A feature schema whose required list overrides the base list
FeatureSchemaOwnRequired ==
    Spread(BASE_ITEM_SCHEMA,
        [properties |->
            Spread(BASE_ITEM_SCHEMA.properties,
                [type |-> [const |-> "feature"],
                 status |-> createEnumSchema(FEATURE_STATUSES),
                 epic |-> [type |-> <<"string", "null">>, minLength |-> 1],
                 acceptanceCriteria |->
                    [type |-> "array",
                     items |-> [type |-> "string", minLength |-> 1],
                     minItems |-> 1]]),
         required |-> <<"type", "acceptanceCriteria">>])

FEATURE_SCHEMA ==
    Spread(BASE_ITEM_SCHEMA,
        [properties |->
            Spread(BASE_ITEM_SCHEMA.properties,
                [type |-> [const |-> "feature"],
                 status |-> createEnumSchema(FEATURE_STATUSES),
                 epic |-> [type |-> <<"string", "null">>, minLength |-> 1],
                 acceptanceCriteria |->
                    [type |-> "array",
                     items |-> [type |-> "string", minLength |-> 1],
                     minItems |-> 1]]),
         required |-> BASE_ITEM_SCHEMA.required \o <<"type", "acceptanceCriteria">>])

BUG_SCHEMA ==
    Spread(BASE_ITEM_SCHEMA,
        [properties |->
            Spread(BASE_ITEM_SCHEMA.properties,
                [type |-> [const |-> "bug"],
                 status |-> createEnumSchema(BUG_STATUSES),
                 severity |-> createEnumSchema(SEVERITIES),
                 reproducible |-> [type |-> "boolean"],
                 stepsToReproduce |->
                    [type |-> "array",
                     items |-> [type |-> "string", minLength |-> 1],
                     minItems |-> 1],
                 environment |-> [type |-> "string", minLength |-> 1],
                 resolution |-> [type |-> <<"string", "null">>, minLength |-> 1]]),
         required |-> BASE_ITEM_SCHEMA.required
                        \o <<"type", "severity", "reproducible",
                             "stepsToReproduce", "environment">>])

TASK_SCHEMA ==
    Spread(BASE_ITEM_SCHEMA,
        [properties |->
            Spread(BASE_ITEM_SCHEMA.properties,
                [type |-> [const |-> "task"],
                 status |-> createEnumSchema(TASK_STATUSES),
                 subtasks |->
                    [type |-> "array",
                     items |-> [type |-> "string", pattern |-> ID_PATTERN],
                     uniqueItems |-> TRUE]]),
         required |-> BASE_ITEM_SCHEMA.required \o <<"type", "subtasks">>])

\* A project schema whose features array does not describe its items
ProjectDataSchemaNoFeatureItems ==
    [type |-> "object",
     required |-> <<"features", "bugs", "tasks", "metadata">>,
     properties |->
        [features |-> [type |-> "array"],
         bugs |-> [type |-> "array", items |-> BUG_SCHEMA],
         tasks |-> [type |-> "array", items |-> TASK_SCHEMA],
         metadata |->
            [type |-> "object",
             required |-> <<"projectName", "version", "lastUpdated">>,
             properties |->
                [projectName |-> [type |-> "string", minLength |-> 1,
                                  maxLength |-> 100],
                 version |-> [type |-> "string", pattern |-> VERSION_PATTERN],
                 lastUpdated |-> [type |-> "string", format |-> "date-time"]],
             additionalProperties |-> FALSE]],
     additionalProperties |-> FALSE]

PROJECT_DATA_SCHEMA ==
    [type |-> "object",
     required |-> <<"features", "bugs", "tasks", "metadata">>,
     properties |->
        [features |-> [type |-> "array", items |-> FEATURE_SCHEMA],
         bugs |-> [type |-> "array", items |-> BUG_SCHEMA],
         tasks |-> [type |-> "array", items |-> TASK_SCHEMA],
         metadata |->
            [type |-> "object",
             required |-> <<"projectName", "version", "lastUpdated">>,
             properties |->
                [projectName |-> [type |-> "string", minLength |-> 1,
                                  maxLength |-> 100],
                 version |-> [type |-> "string", pattern |-> VERSION_PATTERN],
                 lastUpdated |-> [type |-> "string", format |-> "date-time"]],
             additionalProperties |-> FALSE]],
     additionalProperties |-> FALSE]

SCHEMAS ==
    [baseItem |-> BASE_ITEM_SCHEMA,
     feature |-> FEATURE_SCHEMA,
     bug |-> BUG_SCHEMA,
     task |-> TASK_SCHEMA,
     projectData |-> PROJECT_DATA_SCHEMA]

---------------------------------------------------------------------------
(* The validation engine (validators.ts, class SimpleValidator) *)

Has(schema, keyword) == keyword \in DOMAIN schema

JSONSchema7TypeName ==
    {"string", "number", "integer", "boolean", "object", "array", "null"}

\* Array.isArray(schema.type)
TypeIsList(schema) == Has(schema, "type") /\ schema.type \notin JSONSchema7TypeName

\* schema.type === name
TypeIs(schema, name) == Has(schema, "type") /\ schema.type = name

RECURSIVE FlattenLastFirst(_)
\* A push that puts the errors of a later field before those of an earlier one
FlattenLastFirst(lists) ==
    IF Len(lists) = 0 THEN <<>>
    ELSE FlattenLastFirst(Tail(lists)) \o Head(lists)

RECURSIVE Flatten(_)
\* errors.push(...r.errors) over a sequence of error lists
Flatten(lists) ==
    IF Len(lists) = 0 THEN <<>> ELSE Head(lists) \o Flatten(Tail(lists))

ValidationResult(errors) == [valid |-> Len(errors) = 0, errors |-> errors]

\* A set that keeps every element it is given
SetSizeKeepsAll(elems) == Len(elems)

\* new Set(value).size: primitives are equal by value, objects and arrays by
\* identity, and every array or object element is an object of its own
SetSize(elems) ==
    Cardinality({elems[i] : i \in {j \in 1..Len(elems) :
                                        elems[j].t \notin {"array", "object"}}})
    + Cardinality({j \in 1..Len(elems) : elems[j].t \in {"array", "object"}})

\* The expected primitive: the first non-null entry of a type list, or the
\* scalar type; "" stands for undefined
ExpectedType(schema) ==
    IF TypeIsList(schema)
    THEN LET nonNull == SelectSeq(schema.type, LAMBDA ty : ty # "null")
         IN  IF Len(nonNull) > 0 THEN nonNull[1] ELSE ""
    ELSE IF Has(schema, "type") THEN schema.type ELSE ""

\* String checks that stop at the first violated constraint
StringErrorsFirstOnly(value, schema, fieldName) ==
    IF TypeIs(schema, "string") /\ typeof(value) = "string"
    THEN IF Has(schema, "minLength") /\ Len(value.v) < schema.minLength
         THEN <<fieldName \o ": Minimum length is " \o IntToString(schema.minLength)>>
         ELSE IF Has(schema, "maxLength") /\ Len(value.v) > schema.maxLength
         THEN <<fieldName \o ": Maximum length is " \o IntToString(schema.maxLength)>>
         ELSE IF Has(schema, "pattern") /\ ~RegExpTest(schema.pattern, value.v)
         THEN <<fieldName \o ": Does not match pattern " \o schema.pattern>>
         ELSE <<>>
    ELSE <<>>

StringErrors(value, schema, fieldName) ==
    IF TypeIs(schema, "string") /\ typeof(value) = "string"
    THEN (IF Has(schema, "minLength") /\ Len(value.v) < schema.minLength
          THEN <<fieldName \o ": Minimum length is " \o IntToString(schema.minLength)>>
          ELSE <<>>)
      \o (IF Has(schema, "maxLength") /\ Len(value.v) > schema.maxLength
          THEN <<fieldName \o ": Maximum length is " \o IntToString(schema.maxLength)>>
          ELSE <<>>)
      \o (IF Has(schema, "pattern") /\ ~RegExpTest(schema.pattern, value.v)
          THEN <<fieldName \o ": Does not match pattern " \o schema.pattern>>
          ELSE <<>>)
    ELSE <<>>

NumberErrors(value, schema, fieldName) ==
    IF TypeIs(schema, "number") /\ typeof(value) = "number"
    THEN (IF Has(schema, "minimum") /\ value.v < schema.minimum
          THEN <<fieldName \o ": Minimum value is " \o IntToString(schema.minimum)>>
          ELSE <<>>)
      \o (IF Has(schema, "maximum") /\ value.v > schema.maximum
          THEN <<fieldName \o ": Maximum value is " \o IntToString(schema.maximum)>>
          ELSE <<>>)
    ELSE <<>>

EnumErrors(value, schema, fieldName) ==
    IF Has(schema, "enum")
       /\ ~\E i \in 1..Len(schema.enum) : Str(schema.enum[i]) = value
    THEN <<fieldName \o ": Must be one of " \o Join(schema.enum, ", ")>>
    ELSE <<>>

ConstErrors(value, schema, fieldName) ==
    IF Has(schema, "const") /\ value # Str(schema.const)
    THEN <<fieldName \o ": Must be " \o schema.const>>
    ELSE <<>>

\* Item-count checks whose lower bound is exclusive
ArrayLengthErrorsExclusiveMin(value, schema, fieldName) ==
    (IF Has(schema, "minItems") /\ Len(value.v) <= schema.minItems
     THEN <<fieldName \o ": Minimum items is " \o IntToString(schema.minItems)>>
     ELSE <<>>)
 \o (IF Has(schema, "maxItems") /\ Len(value.v) > schema.maxItems
     THEN <<fieldName \o ": Maximum items is " \o IntToString(schema.maxItems)>>
     ELSE <<>>)
 \o (IF Has(schema, "uniqueItems") /\ schema.uniqueItems = TRUE
        /\ SetSize(value.v) # Len(value.v)
     THEN <<fieldName \o ": Items must be unique">>
     ELSE <<>>)

ArrayLengthErrors(value, schema, fieldName) ==
    (IF Has(schema, "minItems") /\ Len(value.v) < schema.minItems
     THEN <<fieldName \o ": Minimum items is " \o IntToString(schema.minItems)>>
     ELSE <<>>)
 \o (IF Has(schema, "maxItems") /\ Len(value.v) > schema.maxItems
     THEN <<fieldName \o ": Maximum items is " \o IntToString(schema.maxItems)>>
     ELSE <<>>)
 \o (IF Has(schema, "uniqueItems") /\ schema.uniqueItems = TRUE
        /\ SetSize(value.v) # Len(value.v)
     THEN <<fieldName \o ": Items must be unique">>
     ELSE <<>>)

\* A loop over the required list that starts at its second entry
MissingRequiredSkipFirst(d, schema) ==
    IF Has(schema, "required") /\ Len(schema.required) > 0
    THEN SelectSeq(Tail(schema.required), LAMBDA field : ~In(field, d))
    ELSE <<>>

\* The names of the required list that are not in the record, in its order
MissingRequired(d, schema) ==
    IF Has(schema, "required")
    THEN SelectSeq(schema.required, LAMBDA field : ~In(field, d))
    ELSE <<>>

RECURSIVE validateSchema(_, _)
RECURSIVE validateField(_, _, _)

\* An engine that enforces additionalProperties: false
ValidateSchemaNoAdditional(d, schema) ==
    LET required == MissingRequired(d, schema)
        entries == Entries(d)
        properties ==
            IF Has(schema, "properties")
            THEN Flatten([i \in 1..Len(entries) |->
                    IF entries[i][1] \in DOMAIN schema.properties
                    THEN validateField(entries[i][2],
                                       schema.properties[entries[i][1]],
                                       entries[i][1]).errors
                    ELSE IF Has(schema, "additionalProperties")
                            /\ schema.additionalProperties = FALSE
                    THEN <<"Unexpected field: " \o entries[i][1]>>
                    ELSE <<>>])
            ELSE <<>>
        errors ==
            IF TypeIs(schema, "object") /\ typeof(d) = "object" /\ d # Null
            THEN [i \in 1..Len(required) |->
                    "Missing required field: " \o required[i]] \o properties
            ELSE IF Has(schema, "type") /\ ~TypeIs(schema, typeof(d))
            THEN <<"Expected type " \o schema.type \o ", got " \o typeof(d)>>
            ELSE <<>>
    IN  ValidationResult(errors)

validateSchema(d, schema) ==
    LET required == MissingRequired(d, schema)
        entries == Entries(d)
        properties ==
            IF Has(schema, "properties")
            THEN Flatten([i \in 1..Len(entries) |->
                    IF entries[i][1] \in DOMAIN schema.properties
                    THEN validateField(entries[i][2],
                                       schema.properties[entries[i][1]],
                                       entries[i][1]).errors
                    ELSE <<>>])
            ELSE <<>>
        errors ==
            IF TypeIs(schema, "object") /\ typeof(d) = "object" /\ d # Null
            THEN [i \in 1..Len(required) |->
                    "Missing required field: " \o required[i]] \o properties
            ELSE IF Has(schema, "type") /\ ~TypeIs(schema, typeof(d))
            THEN <<"Expected type " \o schema.type \o ", got " \o typeof(d)>>
            ELSE <<>>
    IN  ValidationResult(errors)

\* A nested-object check that hands on the nested errors as they are
ValidateFieldNestedUnprefixed(value, schema, fieldName) ==
    LET expectedType == ExpectedType(schema)
        items ==
            IF TypeIs(schema, "array") /\ IsArray(value)
            THEN ArrayLengthErrors(value, schema, fieldName)
                 \o (IF Has(schema, "items")
                     THEN Flatten([i \in 1..Len(value.v) |->
                            validateField(value.v[i], schema.items,
                                fieldName \o "[" \o IntToString(i - 1) \o "]").errors])
                     ELSE <<>>)
            ELSE <<>>
        nested ==
            IF TypeIs(schema, "object") /\ typeof(value) = "object" /\ value # Null
            THEN validateSchema(value, schema).errors
            ELSE <<>>
    IN  IF TypeIsList(schema) /\ (\E i \in 1..Len(schema.type) : schema.type[i] = "null")
           /\ value = Null
        THEN [valid |-> TRUE, errors |-> <<>>]
        ELSE IF expectedType = "array" /\ ~IsArray(value)
        THEN [valid |-> FALSE,
              errors |-> <<fieldName \o ": Expected array, got " \o typeof(value)>>]
        ELSE IF expectedType # "" /\ expectedType # "array"
                /\ typeof(value) # expectedType
        THEN [valid |-> FALSE,
              errors |-> <<fieldName \o ": Expected " \o expectedType
                            \o ", got " \o typeof(value)>>]
        ELSE ValidationResult(
                StringErrors(value, schema, fieldName)
                \o NumberErrors(value, schema, fieldName)
                \o EnumErrors(value, schema, fieldName)
                \o ConstErrors(value, schema, fieldName)
                \o items
                \o nested)

validateField(value, schema, fieldName) ==
    LET expectedType == ExpectedType(schema)
        items ==
            IF TypeIs(schema, "array") /\ IsArray(value)
            THEN ArrayLengthErrors(value, schema, fieldName)
                 \o (IF Has(schema, "items")
                     THEN Flatten([i \in 1..Len(value.v) |->
                            validateField(value.v[i], schema.items,
                                fieldName \o "[" \o IntToString(i - 1) \o "]").errors])
                     ELSE <<>>)
            ELSE <<>>
        nested ==
            IF TypeIs(schema, "object") /\ typeof(value) = "object" /\ value # Null
            THEN LET nestedResult == validateSchema(value, schema)
                 IN  [i \in 1..Len(nestedResult.errors) |->
                        fieldName \o "." \o nestedResult.errors[i]]
            ELSE <<>>
    IN  IF TypeIsList(schema) /\ (\E i \in 1..Len(schema.type) : schema.type[i] = "null")
           /\ value = Null
        THEN [valid |-> TRUE, errors |-> <<>>]
        ELSE IF expectedType = "array" /\ ~IsArray(value)
        THEN [valid |-> FALSE,
              errors |-> <<fieldName \o ": Expected array, got " \o typeof(value)>>]
        ELSE IF expectedType # "" /\ expectedType # "array"
                /\ typeof(value) # expectedType
        THEN [valid |-> FALSE,
              errors |-> <<fieldName \o ": Expected " \o expectedType
                            \o ", got " \o typeof(value)>>]
        ELSE ValidationResult(
                StringErrors(value, schema, fieldName)
                \o NumberErrors(value, schema, fieldName)
                \o EnumErrors(value, schema, fieldName)
                \o ConstErrors(value, schema, fieldName)
                \o items
                \o nested)

validate(d, schema) ==
    IF ~TypeIs(schema, "object")
    THEN validateField(d, schema, "value")
    ELSE validateSchema(d, schema)

---------------------------------------------------------------------------
(* Outcomes of a call: a returned value or a raised error *)

NoOutcome ==
    [kind |-> "none", value |-> Undefined, name |-> "", message |-> "",
     errors |-> <<>>]

Return(v) ==
    [kind |-> "return", value |-> v, name |-> "", message |-> "", errors |-> <<>>]

Throw(name, message, errors) ==
    [kind |-> "throw", value |-> Undefined, name |-> name, message |-> message,
     errors |-> errors]

\* throw new ValidationError(message, errors)
ValidationError(message, errors) == Throw("ValidationError", message, errors)

\* What the runtime raises on reading a property of null or undefined, or on
\* calling a member that is not a function
TypeError(message) == Throw("TypeError", message, <<>>)

---------------------------------------------------------------------------
(* Typed validators (validators.ts) *)

validateFeature(d) ==
    LET result == validate(d, SCHEMAS.feature)
    IN  IF ~result.valid
        THEN ValidationError("Feature validation failed", result.errors)
        ELSE Return(Bool(TRUE))

\* A validator that reports failure by its return value
ValidateBugReturnsFalse(d) ==
    LET result == validate(d, SCHEMAS.bug)
    IN  Return(Bool(result.valid))

validateBug(d) ==
    LET result == validate(d, SCHEMAS.bug)
    IN  IF ~result.valid
        THEN ValidationError("Bug validation failed", result.errors)
        ELSE Return(Bool(TRUE))

validateTask(d) ==
    LET result == validate(d, SCHEMAS.task)
    IN  IF ~result.valid
        THEN ValidationError("Task validation failed", result.errors)
        ELSE Return(Bool(TRUE))

validateProjectData(d) ==
    LET result == validate(d, SCHEMAS.projectData)
    IN  IF ~result.valid
        THEN ValidationError("Project data validation failed", result.errors)
        ELSE Return(Bool(TRUE))

\* A dispatch that sends bugs to the feature validator
ValidateProjectItemBugAsFeature(d) ==
    IF typeof(d) # "object" \/ d = Null
    THEN ValidationError("Invalid project item", <<"Expected object">>)
    ELSE LET type == Get(d, "type")
         IN  CASE type = Str("feature") -> validateFeature(d)
               [] type = Str("bug") -> validateFeature(d)
               [] type = Str("task") -> validateTask(d)
               [] OTHER ->
                    ValidationError("Invalid project item type",
                        <<"Expected 'feature', 'bug', or 'task', got '"
                          \o TemplateString(type) \o "'">>)

\* A default branch that reports the kind of the tag, not the tag
ValidateProjectItemTypeofTag(d) ==
    IF typeof(d) # "object" \/ d = Null
    THEN ValidationError("Invalid project item", <<"Expected object">>)
    ELSE LET type == Get(d, "type")
         IN  CASE type = Str("feature") -> validateFeature(d)
               [] type = Str("bug") -> validateBug(d)
               [] type = Str("task") -> validateTask(d)
               [] OTHER ->
                    ValidationError("Invalid project item type",
                        <<"Expected 'feature', 'bug', or 'task', got '"
                          \o typeof(type) \o "'">>)

validateProjectItem(d) ==
    IF typeof(d) # "object" \/ d = Null
    THEN ValidationError("Invalid project item", <<"Expected object">>)
    ELSE LET type == Get(d, "type")
         IN  CASE type = Str("feature") -> validateFeature(d)
               [] type = Str("bug") -> validateBug(d)
               [] type = Str("task") -> validateTask(d)
               [] OTHER ->
                    ValidationError("Invalid project item type",
                        <<"Expected 'feature', 'bug', or 'task', got '"
                          \o TemplateString(type) \o "'">>)

\* A catch branch that also hands back the rejected input
TryResultKeepsData(thrown, d) ==
    IF thrown.kind = "return"
    THEN Return(Obj(<< <<"valid", Bool(TRUE)>>, <<"errors", Arr(<<>>)>>,
                       <<"data", d>> >>))
    ELSE Return(Obj(<< <<"valid", Bool(FALSE)>>,
                       <<"errors", Arr([i \in 1..Len(thrown.errors) |->
                                            Str(thrown.errors[i])])>>,
                       <<"data", d>> >>))

\* The try/catch shared by tryValidateFeature, tryValidateBug, tryValidateTask
TryResult(thrown, d) ==
    IF thrown.kind = "return"
    THEN Return(Obj(<< <<"valid", Bool(TRUE)>>, <<"errors", Arr(<<>>)>>,
                       <<"data", d>> >>))
    ELSE IF thrown.name = "ValidationError"
    THEN Return(Obj(<< <<"valid", Bool(FALSE)>>,
                       <<"errors", Arr([i \in 1..Len(thrown.errors) |->
                                            Str(thrown.errors[i])])>> >>))
    ELSE Return(Obj(<< <<"valid", Bool(FALSE)>>,
                       <<"errors", Arr(<<Str(thrown.message)>>)>> >>))

tryValidateFeature(d) == TryResult(validateFeature(d), d)

tryValidateBug(d) == TryResult(validateBug(d), d)

tryValidateTask(d) == TryResult(validateTask(d), d)

---------------------------------------------------------------------------
(* Status transitions (validators.ts, types.ts) *)

\* A check that also permits staying in the status
IncludesOrSame(table, from, to) ==
    LET key == TemplateString(from)
    IN  IF key \in DOMAIN table
        THEN Return(Bool(from = to
                         \/ \E i \in 1..Len(table[key]) : Str(table[key][i]) = to))
        ELSE TypeError("Cannot read properties of undefined (reading 'includes')")

\* table[from].includes(to): a key the table does not hold reads as undefined
\* (or as an inherited member that is no array), and the call raises
Includes(table, from, to) ==
    LET key == TemplateString(from)
    IN  IF key \in DOMAIN table
        THEN Return(Bool(\E i \in 1..Len(table[key]) : Str(table[key][i]) = to))
        ELSE TypeError("Cannot read properties of undefined (reading 'includes')")

canTransitionFeatureStatus(from, to) == Includes(FEATURE_STATUS_TRANSITIONS, from, to)

canTransitionBugStatus(from, to) == Includes(BUG_STATUS_TRANSITIONS, from, to)

canTransitionTaskStatus(from, to) == Includes(TASK_STATUS_TRANSITIONS, from, to)

isFeature(item) == Get(item, "type") = Str("feature")

isBug(item) == Get(item, "type") = Str("bug")

isTask(item) == Get(item, "type") = Str("task")

\* A dispatch whose last branch is a plain else: every other tag is a task
CanTransitionStatusElseTask(item, newStatus) ==
    IF item.t \in {"null", "undefined"}
    THEN TypeError("Cannot read properties of " \o item.t \o " (reading 'type')")
    ELSE IF isFeature(item)
    THEN canTransitionFeatureStatus(Get(item, "status"), newStatus)
    ELSE IF isBug(item)
    THEN canTransitionBugStatus(Get(item, "status"), newStatus)
    ELSE canTransitionTaskStatus(Get(item, "status"), newStatus)

canTransitionStatus(item, newStatus) ==
    IF item.t \in {"null", "undefined"}
    THEN TypeError("Cannot read properties of " \o item.t \o " (reading 'type')")
    ELSE IF isFeature(item)
    THEN canTransitionFeatureStatus(Get(item, "status"), newStatus)
    ELSE IF isBug(item)
    THEN canTransitionBugStatus(Get(item, "status"), newStatus)
    ELSE IF isTask(item)
    THEN canTransitionTaskStatus(Get(item, "status"), newStatus)
    ELSE Return(Bool(FALSE))

---------------------------------------------------------------------------
(* Branded types (types.ts) *)

\* throw new Error(message)
Error(message) == Throw("Error", message, <<>>)

\* A range check whose upper bound is exclusive
CreateStoryPointsBelowMax(value) ==
    IF LessThan(value, Num(1)) \/ ~LessThan(value, Num(21))
    THEN Error("Story points must be between 1 and 21")
    ELSE Return(value)

createStoryPoints(value) ==
    IF LessThan(value, Num(1)) \/ LessThan(Num(21), value)
    THEN Error("Story points must be between 1 and 21")
    ELSE Return(value)

createHours(value) ==
    IF LessThan(value, Num(0))
    THEN Error("Hours must be non-negative")
    ELSE Return(value)

---------------------------------------------------------------------------
(* The data model (types.ts): the non-optional fields of each interface    *)
(* with the kind of value each declares; "strings" is readonly string[]    *)

BaseItem ==
    [id |-> "string", title |-> "string", description |-> "string",
     status |-> "string", priority |-> "string", tags |-> "strings",
     createdAt |-> "string", updatedAt |-> "string"]

Feature == Spread(BaseItem, [type |-> "string", acceptanceCriteria |-> "strings"])

Bug ==
    Spread(BaseItem,
        [type |-> "string", severity |-> "string", reproducible |-> "boolean",
         stepsToReproduce |-> "strings", environment |-> "string"])

Task == Spread(BaseItem, [type |-> "string", subtasks |-> "strings"])

---------------------------------------------------------------------------
(* Inputs: the records of the test suite, edited by the caller, and values *)
(* that are no records                                                     *)

MaxEdits == 2
MaxSteps == 5

validFeature ==
    Obj(<< <<"id", Str("f1")>>, <<"title", Str("Test Feature")>>,
           <<"description", Str("Test description")>>, <<"type", Str("feature")>>,
           <<"status", Str("backlog")>>, <<"priority", Str("medium")>>,
           <<"tags", Arr(<<>>)>>, <<"createdAt", Str("2023-01-01T00:00:00Z")>>,
           <<"updatedAt", Str("2023-01-01T00:00:00Z")>>,
           <<"acceptanceCriteria", Arr(<<Str("Must work")>>)>> >>)

validBug ==
    Obj(<< <<"id", Str("b1")>>, <<"title", Str("Test Bug")>>,
           <<"description", Str("Test description")>>, <<"type", Str("bug")>>,
           <<"status", Str("open")>>, <<"priority", Str("high")>>,
           <<"severity", Str("critical")>>, <<"reproducible", Bool(TRUE)>>,
           <<"stepsToReproduce", Arr(<<Str("Step 1")>>)>>,
           <<"environment", Str("Production")>>, <<"tags", Arr(<<>>)>>,
           <<"createdAt", Str("2023-01-01T00:00:00Z")>>,
           <<"updatedAt", Str("2023-01-01T00:00:00Z")>> >>)

validTask ==
    Obj(<< <<"id", Str("t1")>>, <<"title", Str("Test Task")>>,
           <<"description", Str("Test description")>>, <<"type", Str("task")>>,
           <<"status", Str("todo")>>, <<"priority", Str("low")>>,
           <<"subtasks", Arr(<<>>)>>, <<"tags", Arr(<<>>)>>,
           <<"createdAt", Str("2023-01-01T00:00:00Z")>>,
           <<"updatedAt", Str("2023-01-01T00:00:00Z")>> >>)

validMetadata ==
    Obj(<< <<"projectName", Str("Test Project")>>, <<"version", Str("1.0.0")>>,
           <<"lastUpdated", Str("2023-01-01T00:00:00Z")>> >>)

validProjectData ==
    Obj(<< <<"features", Arr(<<validFeature>>)>>, <<"bugs", Arr(<<validBug>>)>>,
           <<"tasks", Arr(<<validTask>>)>>, <<"metadata", validMetadata>> >>)

RECURSIVE Repeat(_, _)
\* c.repeat(n)
Repeat(c, n) ==
    IF n = 0 THEN ""
    ELSE IF n % 2 = 0 THEN LET half == Repeat(c, n \div 2) IN half \o half
    ELSE c \o Repeat(c, n - 1)

\* An edit is <<"set", key, value>> or <<"delete", key, Undefined>>
CommonEdits ==
    { <<"set", "id", Str("")>>, <<"set", "id", Str("bad id!")>>,
      <<"set", "id", Num(5)>>,
      <<"set", "title", Str("")>>,
      <<"set", "title",
        Str(Repeat("t", BASE_ITEM_SCHEMA.properties.title.maxLength + 1))>>,
      <<"set", "status", Str("bogus")>>,
      <<"set", "priority", Str("urgent")>>, <<"set", "priority", Null>>,
      <<"set", "type", Str("invalid")>>, <<"set", "type", Undefined>>,
      <<"set", "type", Num(5)>>,
      <<"set", "extra", Str("x")>>,
      <<"delete", "id", Undefined>>, <<"delete", "type", Undefined>>,
      <<"delete", "tags", Undefined>> }

FeatureEdits ==
    CommonEdits \cup
    { <<"set", "type", Str("bug")>>,
      <<"set", "acceptanceCriteria", Arr(<<>>)>>,
      <<"set", "acceptanceCriteria", Arr(<<Str("ok"), Str("")>>)>>,
      <<"set", "acceptanceCriteria", Str("Must work")>>,
      <<"set", "epic", Null>>, <<"set", "epic", Str("")>>,
      <<"delete", "acceptanceCriteria", Undefined>> }

BugEdits ==
    CommonEdits \cup
    { <<"set", "type", Str("task")>>,
      <<"set", "stepsToReproduce", Arr(<<>>)>>,
      <<"set", "reproducible", Str("yes")>>,
      <<"set", "environment", Str("")>>,
      <<"set", "severity", Str("blocker")>>,
      <<"set", "resolution", Null>>, <<"set", "resolution", Str("")>>,
      <<"delete", "severity", Undefined>> }

TaskEdits ==
    CommonEdits \cup
    { <<"set", "type", Str("feature")>>,
      <<"set", "status", Str("completed")>>,
      <<"set", "subtasks", Arr(<<Str("t2"), Str("t2")>>)>>,
      <<"set", "subtasks", Arr(<<Str("t2"), Str("bad id!")>>)>>,
      <<"set", "subtasks", Arr(<<Num(7)>>)>>,
      <<"delete", "subtasks", Undefined>> }

ProjectDataEdits ==
    { <<"set", "features", Arr(<<>>)>>,
      <<"set", "features", Arr(<<Null>>)>>,
      <<"set", "features", Arr(<<validFeature, validBug>>)>>,
      <<"set", "features", Arr(<<validBug, validFeature, validBug>>)>>,
      <<"set", "bugs", Arr(<<validBug, Set(validBug, "resolution", Str(""))>>)>>,
      <<"set", "features", Str("none")>>,
      <<"set", "tasks",
        Arr(<<Set(validTask, "subtasks", Arr(<<Str("t2"), Str("t2")>>))>>)>>,
      <<"set", "metadata", Set(validMetadata, "version", Str("invalid-version"))>>,
      <<"set", "metadata", Set(validMetadata, "version", Str("1.0.0-beta1"))>>,
      <<"set", "metadata", Delete(validMetadata, "projectName")>>,
      <<"set", "metadata",
        Set(Delete(validMetadata, "lastUpdated"), "version", Str("1.0"))>>,
      <<"set", "metadata", Null>>,
      <<"set", "metadata", Set(validMetadata, "extra", Num(1))>>,
      <<"set", "extra", Str("x")>>,
      <<"delete", "bugs", Undefined>> }

ApplyEdit(d, edit) ==
    IF edit[1] = "set" THEN Set(d, edit[2], edit[3]) ELSE Delete(d, edit[2])

RECURSIVE Edited(_, _, _)
\* The records reached from base by at most n edits
Edited(base, edits, n) ==
    IF n = 0 THEN {base}
    ELSE LET fewer == Edited(base, edits, n - 1)
         IN  fewer \cup {ApplyEdit(d, e) : d \in fewer, e \in edits}

NonRecords ==
    {Null, Undefined, Str("not an object"), Num(42), Bool(TRUE),
     Arr(<<Str("feature")>>)}

Inputs ==
    Edited(validFeature, FeatureEdits, MaxEdits)
    \cup Edited(validBug, BugEdits, MaxEdits)
    \cup Edited(validTask, TaskEdits, MaxEdits)
    \cup Edited(validProjectData, ProjectDataEdits, MaxEdits)
    \cup NonRecords
    \cup {Obj(<<>>)}

---------------------------------------------------------------------------
(* The validation API as a state machine: the caller holds a value and     *)
(* calls the exported functions on it                                      *)

MaxCallers == 2

Callers == 1..MaxCallers

NoJob == [name |-> "none", data |-> Undefined, arg |-> Undefined]

\* No caller drives the engine step by step
EngineIdle ==
    /\ job = [p \in Callers |-> NoJob]
    /\ stack = [p \in Callers |-> <<>>]
    /\ store = <<>>
    /\ visits = [p \in Callers |-> <<>>]
    /\ returned = [p \in Callers |-> NoOutcome]
    /\ first = [p \in Callers |-> NoOutcome]

NoRemoval == [field |-> "", validator |-> ""]

NoExtraction == ""

Init ==
    /\ data \in Inputs
    /\ call = "none"
    /\ arg = Undefined
    /\ outcome = NoOutcome
    /\ removed = NoRemoval
    /\ trail = <<>>
    /\ extracted = NoExtraction
    /\ EngineIdle

Called(name, result) ==
    /\ call' = name
    /\ outcome' = result
    /\ UNCHANGED <<data, arg, removed, trail, extracted>>
    /\ UNCHANGED engineVars

CallValidateFeature == Called("validateFeature", validateFeature(data))

CallValidateBug == Called("validateBug", validateBug(data))

CallValidateTask == Called("validateTask", validateTask(data))

CallValidateProjectData == Called("validateProjectData", validateProjectData(data))

CallValidateProjectItem == Called("validateProjectItem", validateProjectItem(data))

CallTryValidateFeature == Called("tryValidateFeature", tryValidateFeature(data))

CallTryValidateBug == Called("tryValidateBug", tryValidateBug(data))

CallTryValidateTask == Called("tryValidateTask", tryValidateTask(data))

\* The schema a typed validator runs the engine against
SchemaOf(validator) ==
    CASE validator = "validateFeature" -> SCHEMAS.feature
      [] validator = "validateBug" -> SCHEMAS.bug
      [] validator = "validateTask" -> SCHEMAS.task
      [] validator = "validateProjectData" -> SCHEMAS.projectData

\* The caller deletes one required field from a record its validator accepted
RemoveRequiredField ==
    /\ call \in {"validateFeature", "validateBug", "validateTask"}
    /\ outcome = Return(Bool(TRUE))
    /\ data.t = "object"
    /\ removed = NoRemoval
    /\ \E i \in 1..Len(SchemaOf(call).required) :
        LET field == SchemaOf(call).required[i]
        IN  /\ In(field, data)
            /\ data' = Delete(data, field)
            /\ removed' = [field |-> field, validator |-> call]
    /\ extracted' = NoExtraction
    /\ call' = "none"
    /\ outcome' = NoOutcome
    /\ UNCHANGED <<arg, trail>>
    /\ UNCHANGED engineVars

\* The per-item validator of each collection of PROJECT_DATA_SCHEMA
ItemValidator(collection) ==
    CASE collection = "features" -> "validateFeature"
      [] collection = "bugs" -> "validateBug"
      [] collection = "tasks" -> "validateTask"

\* The caller takes one element out of a collection of project data that
\* validateProjectData accepted
ExtractItem ==
    /\ call = "validateProjectData"
    /\ outcome = Return(Bool(TRUE))
    /\ data.t = "object"
    /\ \E collection \in {"features", "bugs", "tasks"} :
        /\ IsArray(Get(data, collection))
        /\ \E i \in 1..Len(Get(data, collection).v) :
                data' = Get(data, collection).v[i]
        /\ extracted' = collection
    /\ call' = "none"
    /\ outcome' = NoOutcome
    /\ UNCHANGED <<arg, removed, trail>>
    /\ UNCHANGED engineVars

Next ==
    \/ CallValidateFeature
    \/ CallValidateBug
    \/ CallValidateTask
    \/ CallValidateProjectData
    \/ CallValidateProjectItem
    \/ CallTryValidateFeature
    \/ CallTryValidateBug
    \/ CallTryValidateTask
    \/ RemoveRequiredField
    \/ ExtractItem

Spec == Init /\ [][Next]_vars

---------------------------------------------------------------------------
(* The status workflow as a state machine: the caller asks whether a       *)
(* status change is permitted and applies it only when the answer is true  *)

Range(seq) == {seq[i] : i \in 1..Len(seq)}

AllStatuses == Range(FEATURE_STATUSES) \cup Range(BUG_STATUSES) \cup Range(TASK_STATUSES)

\* The status strings a caller passes: every status of every kind and one
\* that no kind has
StatusArgs == {Str(st) : st \in AllStatuses \cup {"bogus"}}

\* Items of every type tag (also an unrecognized and an absent one) in every
\* status
WorkflowItems ==
    {Set(Set(validFeature, "type", ty), "status", st) :
        ty \in {Str("feature"), Str("bug"), Str("task"), Str("unknown")},
        st \in StatusArgs}
    \cup {Set(Delete(validFeature, "type"), "status", st) : st \in StatusArgs}

WorkflowInit ==
    /\ data \in WorkflowItems
    /\ call = "none"
    /\ arg = Undefined
    /\ outcome = NoOutcome
    /\ removed = NoRemoval
    /\ trail = <<Get(data, "status")>>
    /\ extracted = NoExtraction
    /\ EngineIdle

Asked(name, newStatus, result) ==
    /\ call' = name
    /\ arg' = newStatus
    /\ outcome' = result
    /\ UNCHANGED <<data, removed, trail, extracted>>
    /\ UNCHANGED engineVars

CallCanTransitionStatus ==
    \E newStatus \in StatusArgs :
        Asked("canTransitionStatus", newStatus, canTransitionStatus(data, newStatus))

CallCanTransitionFeatureStatus ==
    \E to \in StatusArgs :
        Asked("canTransitionFeatureStatus", to,
              canTransitionFeatureStatus(Get(data, "status"), to))

CallCanTransitionBugStatus ==
    \E to \in StatusArgs :
        Asked("canTransitionBugStatus", to,
              canTransitionBugStatus(Get(data, "status"), to))

CallCanTransitionTaskStatus ==
    \E to \in StatusArgs :
        Asked("canTransitionTaskStatus", to,
              canTransitionTaskStatus(Get(data, "status"), to))

\* The caller applies the status change canTransitionStatus just permitted
ApplyTransition ==
    /\ call = "canTransitionStatus"
    /\ outcome = Return(Bool(TRUE))
    /\ Len(trail) <= MaxSteps
    /\ data' = Set(data, "status", arg)
    /\ trail' = Append(trail, arg)
    /\ call' = "none"
    /\ arg' = Undefined
    /\ outcome' = NoOutcome
    /\ UNCHANGED <<removed, extracted>>
    /\ UNCHANGED engineVars

WorkflowNext ==
    \/ CallCanTransitionStatus
    \/ CallCanTransitionFeatureStatus
    \/ CallCanTransitionBugStatus
    \/ CallCanTransitionTaskStatus
    \/ ApplyTransition

WorkflowSpec == WorkflowInit /\ [][WorkflowNext]_vars

---------------------------------------------------------------------------
(* The range-checked constructors as a state machine: the caller holds a   *)
(* number and passes it to a constructor                                   *)

MaxNumber == 25

\* The integers and the odd halves up to MaxNumber either way, the
\* infinities and NaN
NumberArgs ==
    {Num(n) : n \in -MaxNumber..MaxNumber}
    \cup {Half(k) : k \in {h \in (1 - 2 * MaxNumber)..(2 * MaxNumber - 1) :
                                h % 2 = 1}}
    \cup {Infinity(1), Infinity(-1), NaN}

TypesInit ==
    /\ data \in NumberArgs
    /\ call = "none"
    /\ arg = Undefined
    /\ outcome = NoOutcome
    /\ removed = NoRemoval
    /\ trail = <<>>
    /\ extracted = NoExtraction
    /\ EngineIdle

CallCreateStoryPoints == Called("createStoryPoints", createStoryPoints(data))

CallCreateHours == Called("createHours", createHours(data))

TypesNext ==
    \/ CallCreateStoryPoints
    \/ CallCreateHours

TypesSpec == TypesInit /\ [][TypesNext]_vars

---------------------------------------------------------------------------
(* SimpleValidator used directly: the caller holds a record and a schema   *)
(* and calls validator.validate(data, schema)                              *)

\* The schemas a caller passes, by name: those of the SimpleValidator tests,
\* one whose length bounds exclude every string, one with every array
\* keyword, and the registry's entity schemas
SchemaNames ==
    {"required", "string", "enum", "const", "nullable", "bounds", "tags",
     "feature", "bug", "task"}

SchemaNamed(name) ==
    CASE name = "required" ->
            [type |-> "object", required |-> <<"name">>,
             properties |-> [name |-> [type |-> "string"]]]
      [] name = "string" ->
            [type |-> "object",
             properties |->
                [name |-> [type |-> "string", minLength |-> 2, maxLength |-> 10,
                           pattern |-> NAME_PATTERN]]]
      [] name = "enum" ->
            [type |-> "object",
             properties |->
                [status |-> [type |-> "string", enum |-> <<"active", "inactive">>]]]
      [] name = "const" ->
            [type |-> "object", properties |-> [type |-> [const |-> "feature"]]]
      [] name = "nullable" ->
            [type |-> "object",
             properties |-> [optional |-> [type |-> <<"string", "null">>]]]
      [] name = "bounds" ->
            [type |-> "object",
             properties |->
                [name |-> [type |-> "string", minLength |-> 3, maxLength |-> 1,
                           pattern |-> NAME_PATTERN]]]
      [] name = "tags" ->
            [type |-> "object",
             properties |->
                [tags |-> [type |-> "array",
                           items |-> [type |-> "string", minLength |-> 1],
                           minItems |-> 1, maxItems |-> 2, uniqueItems |-> TRUE]]]
      [] name = "feature" -> SCHEMAS.feature
      [] name = "bug" -> SCHEMAS.bug
      [] name = "task" -> SCHEMAS.task

\* The values of the records of the SimpleValidator tests, and some more
ValidatorValues ==
    {Str("test"), Str("ab"), Str("a"), Str("verylongname"), Str("test123"),
     Str(""), Str("1"), Str("verylongname123"), Str("a1"),
     Str("active"), Str("pending"), Str("feature"), Str("bug"), Str("value"),
     Null, Num(5)}

\* The values of a record's tags field
TagLists ==
    {Arr(<<>>), Arr(<<Str("a")>>), Arr(<<Str("a"), Str("b")>>),
     Arr(<<Str("a"), Str("a")>>), Arr(<<Str("a"), Str("b"), Str("c")>>),
     Arr(<<Str("a"), Str(""), Str("a")>>), Arr(<<Num(7), Num(7)>>),
     Arr(<<Null, Str("a"), Null>>), Arr(<<Str(""), Str("")>>), Str("a"), Null}

ValidatorInputs ==
    {Obj(<< <<key, value>> >>) :
        key \in {"name", "status", "type", "optional"}, value \in ValidatorValues}
    \cup {Obj(<< <<"tags", value>> >>) : value \in TagLists}
    \cup {Obj(<<>>)}
    \cup Edited(validFeature, FeatureEdits, 1)
    \cup Edited(validBug, BugEdits, 1)
    \cup Edited(validTask, TaskEdits, 1)

\* { valid, errors } as the caller receives it
ResultObject(result) ==
    Obj(<< <<"valid", Bool(result.valid)>>,
           <<"errors", Arr([i \in 1..Len(result.errors) |-> Str(result.errors[i])])>> >>)

ValidatorInit ==
    /\ data \in ValidatorInputs
    /\ arg \in {Str(name) : name \in SchemaNames}
    /\ call = "none"
    /\ outcome = NoOutcome
    /\ removed = NoRemoval
    /\ trail = <<>>
    /\ extracted = NoExtraction
    /\ EngineIdle

CallValidate ==
    Called("validate", Return(ResultObject(validate(data, SchemaNamed(arg.v)))))

ValidatorNext == CallValidate

ValidatorSpec == ValidatorInit /\ [][ValidatorNext]_vars

---------------------------------------------------------------------------
(* The engine step by step.  Every invocation of validateSchema and        *)
(* validateField is a frame on the stack of the caller that runs it; a     *)
(* frame pushes the errors of its own checks when it is entered, then      *)
(* makes its nested invocations one at a time and takes over their errors  *)
(* when they return.  Callers run their calls in any interleaving.         *)

Job(name, d, a) == [name |-> name, data |-> d, arg |-> a]

Frame(fn, value, spath, dpath, fieldName) ==
    [fn |-> fn, value |-> value, spath |-> spath, dpath |-> dpath,
     fieldName |-> fieldName, next |-> 1]

RECURSIVE SchemaAt(_, _)
\* The schema node a frame was handed: the node reached from the root by
\* `items` and `properties.<key>` steps
SchemaAt(schema, spath) ==
    IF spath = <<>> THEN schema
    ELSE IF spath[1] = "items" THEN SchemaAt(schema.items, Tail(spath))
    ELSE SchemaAt(schema.properties[spath[2]], Tail(Tail(spath)))

\* The registry entry a call hands to validator.validate; "" when the call
\* does not reach the engine
Target(name, d) ==
    CASE name \in {"validateFeature", "tryValidateFeature"} -> "feature"
      [] name \in {"validateBug", "tryValidateBug"} -> "bug"
      [] name \in {"validateTask", "tryValidateTask"} -> "task"
      [] name = "validateProjectData" -> "projectData"
      [] name = "validateProjectItem" ->
            IF typeof(d) # "object" \/ d = Null THEN ""
            ELSE CASE Get(d, "type") = Str("feature") -> "feature"
                   [] Get(d, "type") = Str("bug") -> "bug"
                   [] Get(d, "type") = Str("task") -> "task"
                   [] OTHER -> ""
      [] OTHER -> ""

FailureMessage(target) ==
    CASE target = "feature" -> "Feature validation failed"
      [] target = "bug" -> "Bug validation failed"
      [] target = "task" -> "Task validation failed"
      [] target = "projectData" -> "Project data validation failed"

\* What the call makes of the engine's error list
Finish(name, d, errors) ==
    LET thrown ==
            IF Len(errors) # 0
            THEN ValidationError(FailureMessage(Target(name, d)), errors)
            ELSE Return(Bool(TRUE))
    IN  IF name \in {"tryValidateFeature", "tryValidateBug", "tryValidateTask"}
        THEN TryResult(thrown, d)
        ELSE thrown

\* The outcome of a call that does not reach the engine
Direct(name, d, a) ==
    IF name = "canTransitionStatus"
    THEN canTransitionStatus(d, a)
    ELSE validateProjectItem(d)

\* validateField returns before its refinement checks: a null for a nullable
\* field, or a value that has not the expected type
ReturnsAtOnce(value, schema) ==
    LET expectedType == ExpectedType(schema)
    IN  \/ /\ TypeIsList(schema)
           /\ \E i \in 1..Len(schema.type) : schema.type[i] = "null"
           /\ value = Null
        \/ expectedType = "array" /\ ~IsArray(value)
        \/ expectedType # "" /\ expectedType # "array"
            /\ typeof(value) # expectedType

\* The errors an invocation pushes by its own checks
OwnErrors(frame, schema) ==
    IF frame.fn = "validateSchema"
    THEN IF TypeIs(schema, "object") /\ typeof(frame.value) = "object"
            /\ frame.value # Null
         THEN LET required == MissingRequired(frame.value, schema)
              IN  [i \in 1..Len(required) |->
                        "Missing required field: " \o required[i]]
         ELSE IF Has(schema, "type") /\ ~TypeIs(schema, typeof(frame.value))
         THEN <<"Expected type " \o schema.type \o ", got " \o typeof(frame.value)>>
         ELSE <<>>
    ELSE IF ReturnsAtOnce(frame.value, schema)
    THEN validateField(frame.value, schema, frame.fieldName).errors
    ELSE StringErrors(frame.value, schema, frame.fieldName)
         \o NumberErrors(frame.value, schema, frame.fieldName)
         \o EnumErrors(frame.value, schema, frame.fieldName)
         \o ConstErrors(frame.value, schema, frame.fieldName)
         \o (IF TypeIs(schema, "array") /\ IsArray(frame.value)
             THEN ArrayLengthErrors(frame.value, schema, frame.fieldName)
             ELSE <<>>)

\* The nested invocations a frame makes, in the order it makes them
Sites(frame, schema) ==
    IF frame.fn = "validateSchema"
    THEN IF TypeIs(schema, "object") /\ typeof(frame.value) = "object"
            /\ frame.value # Null /\ Has(schema, "properties")
         THEN LET described ==
                    SelectSeq(Entries(frame.value),
                              LAMBDA e : e[1] \in DOMAIN schema.properties)
              IN  [i \in 1..Len(described) |->
                    Frame("validateField", described[i][2],
                          frame.spath \o <<"properties", described[i][1]>>,
                          frame.dpath \o <<described[i][1]>>,
                          described[i][1])]
         ELSE <<>>
    ELSE IF ReturnsAtOnce(frame.value, schema) THEN <<>>
    ELSE (IF TypeIs(schema, "array") /\ IsArray(frame.value)
             /\ Has(schema, "items")
          THEN [i \in 1..Len(frame.value.v) |->
                    Frame("validateField", frame.value.v[i],
                          frame.spath \o <<"items">>,
                          frame.dpath \o <<IntToString(i - 1)>>,
                          frame.fieldName \o "[" \o IntToString(i - 1) \o "]")]
          ELSE <<>>)
      \o (IF TypeIs(schema, "object") /\ typeof(frame.value) = "object"
             /\ frame.value # Null
          THEN <<Frame("validateSchema", frame.value, frame.spath, frame.dpath,
                       frame.fieldName)>>
          ELSE <<>>)

\* The errors a frame takes over from a nested invocation that returned
Taken(frame, nested, errors) ==
    IF frame.fn = "validateField" /\ nested.fn = "validateSchema"
    THEN [i \in 1..Len(errors) |-> frame.fieldName \o "." \o errors[i]]
    ELSE errors

\* One error list for every depth of the shared validator instance
ErrorListOfInstance(p, depth) == <<1, depth>>

\* Where the error list of an invocation lives: every invocation has a list
\* of its own
ErrorList(p, depth) == <<p, depth>>

\* The list of the previous invocation at the location, errors included
ReusedErrors(lst, loc) ==
    IF loc \in DOMAIN lst THEN lst ELSE [l \in {loc} |-> <<>>] @@ lst

\* const errors: string[] = []
NewErrors(lst, loc) == [l \in {loc} |-> <<>>] @@ lst

\* errors.push(...more)
PushErrors(lst, loc, more) == [lst EXCEPT ![loc] = @ \o more]

Root(p) == SCHEMAS[Target(job[p].name, job[p].data)]

Top(p) == stack[p][Len(stack[p])]

TopSchema(p) == SchemaAt(Root(p), Top(p).spath)

Visit(frame) == <<frame.fn, frame.spath, frame.dpath>>

\* A frame is entered: it gets its error list and runs its own checks
Enter(p, frame, depth) ==
    LET loc == ErrorList(p, depth)
    IN  store' = PushErrors(NewErrors(store, loc), loc,
                            OwnErrors(frame, SchemaAt(Root(p), frame.spath)))

\* validator.validate(data, schema): the call enters the engine
Invoke(p) ==
    /\ job[p].name # "none"
    /\ Target(job[p].name, job[p].data) # ""
    /\ stack[p] = <<>>
    /\ LET frame ==
            IF ~TypeIs(Root(p), "object")
            THEN Frame("validateField", job[p].data, <<>>, <<>>, "value")
            ELSE Frame("validateSchema", job[p].data, <<>>, <<>>, "")
       IN  /\ stack' = [stack EXCEPT ![p] = <<frame>>]
           /\ visits' = [visits EXCEPT ![p] = <<Visit(frame)>>]
           /\ Enter(p, frame, 1)
    /\ UNCHANGED <<job, returned, first>>
    /\ UNCHANGED apiVars

\* The innermost frame makes its next nested invocation
Call(p) ==
    /\ stack[p] # <<>>
    /\ Top(p).next <= Len(Sites(Top(p), TopSchema(p)))
    /\ LET frame == Sites(Top(p), TopSchema(p))[Top(p).next]
       IN  /\ stack' = [stack EXCEPT ![p] = Append(@, frame)]
           /\ visits' = [visits EXCEPT ![p] = Append(@, Visit(frame))]
           /\ Enter(p, frame, Len(stack[p]) + 1)
    /\ UNCHANGED <<job, returned, first>>
    /\ UNCHANGED apiVars

\* A parent that goes on with the nested invocation it has just made
ReturnWithoutAdvance(p) ==
    /\ Len(stack[p]) > 1
    /\ Top(p).next > Len(Sites(Top(p), TopSchema(p)))
    /\ LET depth == Len(stack[p])
           parent == stack[p][depth - 1]
       IN  /\ stack' = [stack EXCEPT ![p] = SubSeq(@, 1, depth - 1)]
           /\ store' = PushErrors(store, ErrorList(p, depth - 1),
                            Taken(parent, Top(p), store[ErrorList(p, depth)]))
    /\ UNCHANGED <<job, visits, returned, first>>
    /\ UNCHANGED apiVars

\* The innermost frame has made all its invocations: it returns its list and
\* its parent pushes the errors onto its own
ReturnToParent(p) ==
    /\ Len(stack[p]) > 1
    /\ Top(p).next > Len(Sites(Top(p), TopSchema(p)))
    /\ LET depth == Len(stack[p])
           parent == stack[p][depth - 1]
       IN  /\ stack' = [stack EXCEPT ![p] =
                    Append(SubSeq(@, 1, depth - 2),
                           [parent EXCEPT !.next = @ + 1])]
           /\ store' = PushErrors(store, ErrorList(p, depth - 1),
                            Taken(parent, Top(p), store[ErrorList(p, depth)]))
    /\ UNCHANGED <<job, visits, returned, first>>
    /\ UNCHANGED apiVars

\* The caller has the outcome of a call
Completed(p, result) ==
    /\ returned' = [returned EXCEPT ![p] = result]
    /\ first' = [first EXCEPT ![p] = IF @ = NoOutcome THEN result ELSE @]

\* The outermost frame returns and the exported function returns or raises
Complete(p) ==
    /\ Len(stack[p]) = 1
    /\ Top(p).next > Len(Sites(Top(p), TopSchema(p)))
    /\ Completed(p, Finish(job[p].name, job[p].data, store[ErrorList(p, 1)]))
    /\ stack' = [stack EXCEPT ![p] = <<>>]
    /\ UNCHANGED <<job, store, visits>>
    /\ UNCHANGED apiVars

\* A call that does not reach the engine: a transition check, or a project
\* item that validateProjectItem rejects by its tag
Answer(p) ==
    /\ job[p].name # "none"
    /\ Target(job[p].name, job[p].data) = ""
    /\ Completed(p, Direct(job[p].name, job[p].data, job[p].arg))
    /\ UNCHANGED <<job, stack, store, visits>>
    /\ UNCHANGED apiVars

Step(p) ==
    Invoke(p) \/ Call(p) \/ ReturnToParent(p) \/ Complete(p) \/ Answer(p)

EngineNext == \E p \in Callers : Step(p)

EngineNames ==
    {"validateFeature", "validateBug", "validateTask", "validateProjectData",
     "validateProjectItem", "tryValidateFeature", "tryValidateBug",
     "tryValidateTask"}

\* The calls of the one caller of EngineSpec: every validator on the values
\* one edit away from the valid ones, and two transition checks
EngineJobs ==
    {Job(name, d, Undefined) :
        name \in EngineNames,
        d \in Edited(validFeature, FeatureEdits, 1)
              \cup Edited(validBug, BugEdits, 1)
              \cup Edited(validTask, TaskEdits, 1)
              \cup Edited(validProjectData, ProjectDataEdits, 1)
              \cup NonRecords}
    \cup {Job("canTransitionStatus", validTask, Str("in-progress")),
          Job("canTransitionStatus", validBug, Str("closed"))}

ApiIdle ==
    /\ data = Undefined
    /\ call = "none"
    /\ arg = Undefined
    /\ outcome = NoOutcome
    /\ removed = NoRemoval
    /\ trail = <<>>
    /\ extracted = NoExtraction

EngineInit ==
    /\ ApiIdle
    /\ \E j \in EngineJobs :
            job = [p \in Callers |-> IF p = 1 THEN j ELSE NoJob]
    /\ stack = [p \in Callers |-> <<>>]
    /\ store = <<>>
    /\ visits = [p \in Callers |-> <<>>]
    /\ returned = [p \in Callers |-> NoOutcome]
    /\ first = [p \in Callers |-> NoOutcome]

EngineSpec == EngineInit /\ [][EngineNext]_vars

\* The calls of the one caller of FairEngineSpec
TerminationJobs ==
    {Job(name, d, Undefined) :
        name \in {"validateFeature", "validateBug", "validateTask",
                  "validateProjectData"},
        d \in {validFeature, validBug, validTask, validProjectData}}
    \cup {Job("validateProjectData",
               Set(validProjectData, "features", Arr(<<Null>>)), Undefined),
          Job("validateProjectData",
              Set(validProjectData, "metadata",
                  Set(validMetadata, "version", Str("invalid-version"))),
              Undefined)}
    \cup {Job("tryValidateFeature", d, Undefined) : d \in NonRecords}
    \cup {Job("validateProjectItem", d, Undefined) :
            d \in Edited(validTask, TaskEdits, 1)}
    \cup {Job("canTransitionStatus", validTask, Str("in-progress"))}

TerminationInit ==
    /\ ApiIdle
    /\ \E j \in TerminationJobs :
            job = [p \in Callers |-> IF p = 1 THEN j ELSE NoJob]
    /\ stack = [p \in Callers |-> <<>>]
    /\ store = <<>>
    /\ visits = [p \in Callers |-> <<>>]
    /\ returned = [p \in Callers |-> NoOutcome]
    /\ first = [p \in Callers |-> NoOutcome]

\* A call that has started runs on until it returns
FairEngineSpec ==
    /\ TerminationInit
    /\ [][EngineNext]_vars
    /\ \A p \in Callers : WF_vars(Step(p))

\* The calls of the callers of ConcurrentSpec
ConcurrentJobs ==
    {Job("validateTask", Obj(<< <<"id", Str("")>>, <<"type", Str("task")>> >>),
         Undefined),
     Job("tryValidateFeature",
         Obj(<< <<"acceptanceCriteria", Arr(<<Str("")>>)>> >>), Undefined),
     Job("validateProjectData",
         Obj(<< <<"metadata", Obj(<< <<"version", Str("1.0")>> >>)>> >>),
         Undefined),
     Job("validateProjectItem", Obj(<< <<"type", Str("bug")>> >>), Undefined),
     Job("validateBug", Str("not an object"), Undefined),
     Job("canTransitionStatus", validTask, Str("in-progress"))}

ConcurrentInit ==
    /\ ApiIdle
    /\ job \in [Callers -> ConcurrentJobs]
    /\ stack = [p \in Callers |-> <<>>]
    /\ store = <<>>
    /\ visits = [p \in Callers |-> <<>>]
    /\ returned = [p \in Callers |-> NoOutcome]
    /\ first = [p \in Callers |-> NoOutcome]

ConcurrentSpec == ConcurrentInit /\ [][EngineNext]_vars

---------------------------------------------------------------------------
(* Properties of the status transitions, checked under WorkflowSpec *)

Status == Get(data, "status")
Tag == Get(data, "type")

FeaturePairs ==
    { <<"backlog", "planning">>,
      <<"planning", "in-progress">>, <<"planning", "backlog">>,
      <<"in-progress", "testing">>, <<"in-progress", "planning">>,
      <<"testing", "completed">>, <<"testing", "in-progress">> }

BugPairs ==
    { <<"open", "in-progress">>, <<"open", "wont-fix">>,
      <<"in-progress", "resolved">>, <<"in-progress", "open">>,
      <<"resolved", "closed">>, <<"resolved", "open">>,
      <<"closed", "open">>,
      <<"wont-fix", "open">> }

TaskPairs ==
    { <<"todo", "in-progress">>,
      <<"in-progress", "blocked">>, <<"in-progress", "completed">>,
      <<"in-progress", "todo">>,
      <<"blocked", "in-progress">>, <<"blocked", "todo">> }

\* C1: for each kind K and every pair (from, to) of K's statuses,
\* canTransition<K>Status(from, to) is true exactly when `to` is listed for
\* `from` in the table of the specification, and false otherwise.
C1_TransitionTables ==
    /\ (call = "canTransitionFeatureStatus"
        /\ Status.v \in Range(FEATURE_STATUSES) /\ arg.v \in Range(FEATURE_STATUSES))
       => outcome = Return(Bool(<<Status.v, arg.v>> \in FeaturePairs))
    /\ (call = "canTransitionBugStatus"
        /\ Status.v \in Range(BUG_STATUSES) /\ arg.v \in Range(BUG_STATUSES))
       => outcome = Return(Bool(<<Status.v, arg.v>> \in BugPairs))
    /\ (call = "canTransitionTaskStatus"
        /\ Status.v \in Range(TASK_STATUSES) /\ arg.v \in Range(TASK_STATUSES))
       => outcome = Return(Bool(<<Status.v, arg.v>> \in TaskPairs))

C1_Witness ==
    /\ call = "canTransitionBugStatus"
    /\ Status = Str("closed")
    /\ arg = Str("open")
    /\ outcome = Return(Bool(TRUE))

\* C2: canTransitionStatus(item, newStatus) dispatches on item.type: for an
\* item tagged 'feature', 'bug' or 'task' whose status is a status of that
\* kind the result is that of the kind's own check on (item.status,
\* newStatus); for an item whose tag is none of the three it is false.
C2_Dispatch ==
    call = "canTransitionStatus" =>
        /\ (Tag = Str("feature") /\ Status.v \in Range(FEATURE_STATUSES))
           => outcome = canTransitionFeatureStatus(Status, arg)
        /\ (Tag = Str("bug") /\ Status.v \in Range(BUG_STATUSES))
           => outcome = canTransitionBugStatus(Status, arg)
        /\ (Tag = Str("task") /\ Status.v \in Range(TASK_STATUSES))
           => outcome = canTransitionTaskStatus(Status, arg)
        /\ Tag \notin {Str("feature"), Str("bug"), Str("task")}
           => outcome = Return(Bool(FALSE))

C2_Witness ==
    /\ call = "canTransitionStatus"
    /\ Tag = Str("task")
    /\ Status = Str("blocked")
    /\ arg = Str("todo")
    /\ outcome = Return(Bool(TRUE))
    /\ canTransitionBugStatus(Status, arg) # outcome

\* C3: canTransitionStatus never raises: for every item (any type tag, any
\* status string, also one that is no status of the item's kind) and every
\* newStatus the call completes and returns a boolean.
C3_NeverRaises ==
    call = "canTransitionStatus" =>
        outcome.kind = "return" /\ outcome.value.t = "boolean"

\* C4: 'completed' is terminal for Features and Tasks: the kind's check
\* answers false for every target when the status is 'completed', and in
\* every sequence of permitted status changes an item that is 'completed'
\* stays 'completed'.
C4_CompletedTerminal ==
    /\ [](((call = "canTransitionFeatureStatus" \/ call = "canTransitionTaskStatus")
           /\ Status = Str("completed"))
          => outcome = Return(Bool(FALSE)))
    /\ [][(Tag \in {Str("feature"), Str("task")} /\ Status = Str("completed"))
          => Get(data', "status") = Str("completed")]_vars

C4_Witness ==
    /\ Tag = Str("feature")
    /\ Status = Str("completed")
    /\ Len(trail) > 1
    /\ call = "canTransitionStatus"
    /\ arg = Str("testing")
    /\ outcome = Return(Bool(FALSE))

---------------------------------------------------------------------------
(* Properties of the validators, checked under Spec *)

EntityValidators == {"validateFeature", "validateBug", "validateTask"}

TypedValidators == EntityValidators \cup {"validateProjectData"}

TryValidators == {"tryValidateFeature", "tryValidateBug", "tryValidateTask"}

\* C5: for each kind K and every record that passes K's validator, removing
\* any single field named in K's required list makes validation fail, and
\* the error list is the single entry `Missing required field: <name>`.
C5_RemovedRequiredField ==
    (removed # NoRemoval /\ call = removed.validator) =>
        /\ outcome.kind = "throw"
        /\ outcome.name = "ValidationError"
        /\ outcome.errors = <<"Missing required field: " \o removed.field>>

C5_Witness ==
    /\ removed = [field |-> "subtasks", validator |-> "validateTask"]
    /\ call = "validateTask"
    /\ outcome.kind = "throw"

\* What a schema node declares, read as JSON Schema reads it
DeclaredTypes(schema) ==
    IF TypeIsList(schema) THEN Range(schema.type) ELSE {schema.type}

HasDeclaredType(value, schema) ==
    Has(schema, "type") => value.t \in DeclaredTypes(schema)

RequiredPresent(value, schema) ==
    Has(schema, "required") =>
        \A i \in 1..Len(schema.required) : In(schema.required[i], value)

\* Every own field the schema describes has the primitive type it declares
PrimitiveTypesOk(value, schema) ==
    \A i \in 1..Len(value.v) :
        value.v[i][1] \in DOMAIN schema.properties
            => HasDeclaredType(value.v[i][2], schema.properties[value.v[i][1]])

RECURSIVE Conforms(_, _)
\* The value has the declared type and meets every refinement the node
\* declares: length bounds, pattern, enumerated values, constant, item
\* count, uniqueness, item schema, required fields and property schemas
Conforms(value, schema) ==
    /\ HasDeclaredType(value, schema)
    /\ value.t = "string" =>
        /\ Has(schema, "minLength") => Len(value.v) >= schema.minLength
        /\ Has(schema, "maxLength") => Len(value.v) <= schema.maxLength
        /\ Has(schema, "pattern") => RegExpTest(schema.pattern, value.v)
    /\ Has(schema, "enum") => \E e \in Range(schema.enum) : value = Str(e)
    /\ Has(schema, "const") => value = Str(schema.const)
    /\ value.t = "array" =>
        /\ Has(schema, "minItems") => Len(value.v) >= schema.minItems
        /\ Has(schema, "maxItems") => Len(value.v) <= schema.maxItems
        /\ (Has(schema, "uniqueItems") /\ schema.uniqueItems)
            => \A i, j \in 1..Len(value.v) : i # j => value.v[i] # value.v[j]
        /\ Has(schema, "items")
            => \A i \in 1..Len(value.v) : Conforms(value.v[i], schema.items)
    /\ value.t = "object" =>
        /\ RequiredPresent(value, schema)
        /\ Has(schema, "properties") =>
            \A i \in 1..Len(value.v) :
                value.v[i][1] \in DOMAIN schema.properties
                    => Conforms(value.v[i][2], schema.properties[value.v[i][1]])

\* C6: for every entity kind K and any value that has every field of K's
\* required list present and in which every field has the primitive type
\* its schema declares, validate(value, schemaK).valid is true.
C6_TypesSuffice ==
    (call \in EntityValidators /\ data.t = "object"
     /\ RequiredPresent(data, SchemaOf(call))
     /\ PrimitiveTypesOk(data, SchemaOf(call)))
        => outcome = Return(Bool(TRUE))

\* C6 as amended: a value that has every required field present and in
\* which every described field has its declared primitive type and also
\* meets the refinements its schema declares is valid.
C6_ConformingIsValid ==
    (call \in EntityValidators /\ Conforms(data, SchemaOf(call)))
        => outcome = Return(Bool(TRUE))

C6_Witness ==
    /\ call = "validateBug"
    /\ Conforms(data, SCHEMAS.bug)
    /\ Get(data, "resolution") = Null
    /\ In("extra", data)
    /\ outcome = Return(Bool(TRUE))

\* C7: each typed validator returns true exactly when the engine's error
\* list for its static schema is empty, and otherwise raises a
\* ValidationError whose errors are exactly the engine's error list, in the
\* same order; it never returns false.
C7_TypedValidators ==
    call \in TypedValidators =>
        LET errors == validate(data, SchemaOf(call)).errors
        IN  /\ outcome # Return(Bool(FALSE))
            /\ (outcome = Return(Bool(TRUE))) <=> (errors = <<>>)
            /\ errors # <<>> =>
                /\ outcome.kind = "throw"
                /\ outcome.name = "ValidationError"
                /\ outcome.errors = errors

C7_Witness ==
    /\ call = "validateBug"
    /\ outcome.kind = "throw"
    /\ outcome.name = "ValidationError"
    /\ Len(outcome.errors) = 2

IsNonRecord(value) ==
    value.t \in {"null", "string", "number", "boolean", "undefined"}

\* C8: inputs that are no structured record (null, a string, a number, a
\* boolean, undefined) are validation errors for every validator: the
\* typed validators and validateProjectItem raise a ValidationError and the
\* try-validators return valid = false.
C8_NonRecordsRejected ==
    IsNonRecord(data) =>
        /\ call \in TypedValidators \cup {"validateProjectItem"}
            => (outcome.kind = "throw" /\ outcome.name = "ValidationError")
        /\ call \in TryValidators
            => Get(outcome.value, "valid") = Bool(FALSE)

\* C9: for every structured record whose type tag is 'feature', 'bug' or
\* 'task', validateProjectItem has exactly the outcome of the matching
\* typed validator: true when it returns true, the same ValidationError
\* (message and error list) when it raises.
C9_ItemMatchesTyped ==
    (call = "validateProjectItem" /\ typeof(data) = "object" /\ data # Null) =>
        /\ Tag = Str("feature") => outcome = validateFeature(data)
        /\ Tag = Str("bug") => outcome = validateBug(data)
        /\ Tag = Str("task") => outcome = validateTask(data)

C9_Witness ==
    /\ call = "validateProjectItem"
    /\ Tag = Str("feature")
    /\ Get(data, "acceptanceCriteria") = Arr(<<>>)
    /\ outcome.kind = "throw"
    /\ outcome.message = "Feature validation failed"
    /\ Len(outcome.errors) > 0

\* C10: for every structured record whose type tag is absent or none of
\* 'feature', 'bug', 'task', validateProjectItem raises a ValidationError
\* without running a typed validator; its error list has exactly one entry,
\* which names the tag: Expected 'feature', 'bug', or 'task', got '<tag>'.
C10_UnknownTag ==
    (call = "validateProjectItem" /\ typeof(data) = "object" /\ data # Null
     /\ Tag \notin {Str("feature"), Str("bug"), Str("task")}) =>
        /\ outcome.kind = "throw"
        /\ outcome.name = "ValidationError"
        /\ outcome.message = "Invalid project item type"
        /\ Len(outcome.errors) = 1
        /\ outcome.errors[1] =
            "Expected 'feature', 'bug', or 'task', got '"
                \o (IF Tag = Undefined THEN "undefined" ELSE TemplateString(Tag))
                \o "'"

C10_Witness ==
    /\ call = "validateProjectItem"
    /\ Tag = Str("invalid")
    /\ ~In("id", data)
    /\ outcome.errors = <<"Expected 'feature', 'bug', or 'task', got 'invalid'">>

\* The throwing validator a try-validator wraps
Wrapped(name) ==
    CASE name = "tryValidateFeature" -> "validateFeature"
      [] name = "tryValidateBug" -> "validateBug"
      [] name = "tryValidateTask" -> "validateTask"

\* C11: the try-validators never raise and mirror the throwing validator:
\* when it succeeds the result is {valid: true, errors: [], data: the same
\* input}; when it raises a ValidationError the result has valid = false,
\* errors equal to that error's full non-empty list and no data field; a
\* result is never partial (valid = true with errors, or valid = false with
\* an empty list).
C11_TryMirrorsValidator ==
    call \in TryValidators =>
        LET errors == validate(data, SchemaOf(Wrapped(call))).errors
            result == outcome.value
        IN  /\ outcome.kind = "return"
            /\ errors = <<>> =>
                result = Obj(<< <<"valid", Bool(TRUE)>>, <<"errors", Arr(<<>>)>>,
                                <<"data", data>> >>)
            /\ errors # <<>> =>
                /\ Get(result, "valid") = Bool(FALSE)
                /\ Get(result, "errors") =
                        Arr([i \in 1..Len(errors) |-> Str(errors[i])])
                /\ ~In("data", result)
            /\ (Get(result, "valid") = Bool(TRUE))
                    <=> (Get(result, "errors") = Arr(<<>>))
            /\ Get(result, "valid").t = "boolean"

C11_Witness ==
    /\ call = "tryValidateTask"
    /\ data.t = "object"
    /\ ~In("subtasks", data)
    /\ Get(data, "id") = Str("")
    /\ Get(outcome.value, "valid") = Bool(FALSE)
    /\ Len(Get(outcome.value, "errors").v) = 3
    /\ ~In("data", outcome.value)

\* C12: for every value that passes validateProjectData, each element taken
\* from its features passes validateFeature, each element of bugs passes
\* validateBug and each element of tasks passes validateTask.
C12_RoundTrip ==
    (extracted # NoExtraction /\ call = ItemValidator(extracted))
        => outcome = Return(Bool(TRUE))

C12_Witness ==
    /\ extracted = "bugs"
    /\ call = "validateBug"
    /\ Get(data, "resolution") = Str("")
    /\ outcome = Return(Bool(TRUE))

BaseRequired ==
    <<"id", "title", "description", "status", "priority", "createdAt",
      "updatedAt">>

BaseProperties ==
    {"id", "title", "description", "priority", "createdAt", "updatedAt"}

KindRequired ==
    [feature |-> <<"type", "acceptanceCriteria">>,
     bug |-> <<"type", "severity", "reproducible", "stepsToReproduce",
               "environment">>,
     task |-> <<"type", "subtasks">>]

KindProperties ==
    [feature |-> {"type", "status", "epic", "acceptanceCriteria"},
     bug |-> {"type", "status", "severity", "reproducible", "stepsToReproduce",
              "environment", "resolution"},
     task |-> {"type", "status", "subtasks"}]

KindOf(validator) ==
    CASE validator = "validateFeature" -> "feature"
      [] validator = "validateBug" -> "bug"
      [] validator = "validateTask" -> "task"

\* C17: for each of FEATURE_SCHEMA, BUG_SCHEMA and TASK_SCHEMA the required
\* list is the base schema's required list followed by the kind-specific
\* required names, the property map holds every base property unchanged
\* plus the kind-specific properties, and BASE_ITEM_SCHEMA itself is as it
\* was declared; a record with no fields is told its missing fields in that
\* order.
C17_SchemaComposition ==
    /\ BASE_ITEM_SCHEMA.required = BaseRequired
    /\ DOMAIN BASE_ITEM_SCHEMA.properties = BaseProperties
    /\ \A kind \in {"feature", "bug", "task"} :
        /\ SCHEMAS[kind].required = BASE_ITEM_SCHEMA.required \o KindRequired[kind]
        /\ DOMAIN SCHEMAS[kind].properties = BaseProperties \cup KindProperties[kind]
        /\ \A k \in BaseProperties :
            SCHEMAS[kind].properties[k] = BASE_ITEM_SCHEMA.properties[k]
        /\ SCHEMAS[kind].type = BASE_ITEM_SCHEMA.type
        /\ SCHEMAS[kind].additionalProperties = BASE_ITEM_SCHEMA.additionalProperties
    /\ (call \in EntityValidators /\ data = Obj(<<>>)) =>
        LET required == BaseRequired \o KindRequired[KindOf(call)]
        IN  /\ outcome.kind = "throw"
            /\ outcome.errors =
                [i \in 1..Len(required) |-> "Missing required field: " \o required[i]]

C17_Witness ==
    /\ call = "validateBug"
    /\ data = Obj(<<>>)
    /\ Len(outcome.errors) = 12
    /\ outcome.errors[7] = "Missing required field: updatedAt"
    /\ outcome.errors[8] = "Missing required field: type"

\* The own fields of a record that its schema's property map does not name
Undeclared(value, schema) ==
    {value.v[i][1] : i \in {j \in 1..Len(value.v) :
                                value.v[j][1] \notin DOMAIN schema.properties}}

\* The exported validator of the name, applied to a value
Apply(validator, value) ==
    CASE validator = "validateFeature" -> validateFeature(value)
      [] validator = "validateBug" -> validateBug(value)
      [] validator = "validateTask" -> validateTask(value)
      [] validator = "validateProjectData" -> validateProjectData(value)

\* C18: undeclared fields are ignored even where the schema declares
\* additionalProperties: false: a record with a field that its schema's
\* property map does not name has the validation result (validity and error
\* list) of the record without that field, at the top level and in the
\* nested metadata record, so a valid record with undeclared fields passes.
C18_UndeclaredIgnored ==
    (call \in TypedValidators /\ data.t = "object") =>
        /\ \A k \in Undeclared(data, SchemaOf(call)) :
                outcome = Apply(call, Delete(data, k))
        /\ (call = "validateProjectData" /\ Get(data, "metadata").t = "object") =>
            \A k \in Undeclared(Get(data, "metadata"),
                                PROJECT_DATA_SCHEMA.properties.metadata) :
                outcome = Apply(call, Set(data, "metadata",
                                          Delete(Get(data, "metadata"), k)))

C18_Witness ==
    /\ call = "validateProjectData"
    /\ data.t = "object"
    /\ In("extra", data)
    /\ Get(data, "metadata").t = "object"
    /\ In("extra", Get(data, "metadata"))
    /\ SCHEMAS.projectData.additionalProperties = FALSE
    /\ outcome = Return(Bool(TRUE))

\* C19: a type mismatch short-circuits the field: when a field's value does
\* not have the schema's expected primitive type (or is not a sequence where
\* an array is expected), field-level validation emits exactly one error for
\* that field, `<field>: Expected <type>, got <actualType>`, and no other
\* error for the same field.
C19_TypeMismatchShortCircuits ==
    (call \in TypedValidators /\ data.t = "object") =>
        \A i \in 1..Len(data.v) :
            LET key == data.v[i][1]
                value == data.v[i][2]
                properties == SchemaOf(call).properties
            IN  (key \in DOMAIN properties
                 /\ Has(properties[key], "type")
                 /\ ~HasDeclaredType(value, properties[key]))
                    => /\ validateField(value, properties[key], key).errors =
                            <<key \o ": Expected " \o ExpectedType(properties[key])
                              \o ", got " \o typeof(value)>>
                       /\ outcome.kind = "throw"

---------------------------------------------------------------------------
(* Properties of SimpleValidator used directly, checked under ValidatorSpec *)

StartsWith(str, prefix) ==
    Len(str) >= Len(prefix) /\ SubSeq(str, 1, Len(prefix)) = prefix

\* The error is one of the three string-refinement errors of the field
IsStringError(error, key) ==
    \/ StartsWith(error, key \o ": Minimum length is ")
    \/ StartsWith(error, key \o ": Maximum length is ")
    \/ StartsWith(error, key \o ": Does not match pattern ")

\* The messages of the constraints the string violates, in the order
\* minLength, maxLength, pattern
ViolatedStringConstraints(str, schema, key) ==
    LET violated ==
            [minLength |-> Has(schema, "minLength") /\ Len(str) < schema.minLength,
             maxLength |-> Has(schema, "maxLength") /\ Len(str) > schema.maxLength,
             pattern |-> Has(schema, "pattern") /\ ~RegExpTest(schema.pattern, str)]
        message ==
            [minLength |-> IF violated.minLength
                           THEN key \o ": Minimum length is "
                                \o IntToString(schema.minLength)
                           ELSE "",
             maxLength |-> IF violated.maxLength
                           THEN key \o ": Maximum length is "
                                \o IntToString(schema.maxLength)
                           ELSE "",
             pattern |-> IF violated.pattern
                         THEN key \o ": Does not match pattern " \o schema.pattern
                         ELSE ""]
        order == SelectSeq(<<"minLength", "maxLength", "pattern">>,
                           LAMBDA c : violated[c])
    IN  [i \in 1..Len(order) |-> message[order[i]]]

\* The error strings of the result validate returned
ReturnedErrors ==
    LET errors == Get(outcome.value, "errors").v
    IN  [i \in 1..Len(errors) |-> errors[i].v]

\* C20: for a string value of a string-typed field, each violated constraint
\* among minLength, maxLength and pattern contributes its own error: the
\* string errors of the field in the result are the errors of the violated
\* constraints, one each, in the order minLength, maxLength, pattern.
C20_StringErrorsAccumulate ==
    (call = "validate" /\ data.t = "object") =>
        \A i \in 1..Len(data.v) :
            LET key == data.v[i][1]
                value == data.v[i][2]
                properties == SchemaNamed(arg.v).properties
            IN  (key \in DOMAIN properties /\ TypeIs(properties[key], "string")
                 /\ value.t = "string")
                    => SelectSeq(ReturnedErrors, LAMBDA e : IsStringError(e, key))
                        = ViolatedStringConstraints(value.v, properties[key], key)

C20_Witness ==
    /\ call = "validate"
    /\ arg = Str("bounds")
    /\ data = Obj(<< <<"name", Str("a1")>> >>)
    /\ ReturnedErrors =
        <<"name: Minimum length is 3", "name: Maximum length is 1",
          "name: Does not match pattern ^[a-zA-Z]+$">>

---------------------------------------------------------------------------
(* Properties of the engine run step by step, checked under EngineSpec,    *)
(* FairEngineSpec and ConcurrentSpec                                       *)

\* What a call returns when nothing else runs: the exported function applied
\* to its arguments
Alone(j) ==
    CASE j.name = "validateFeature" -> validateFeature(j.data)
      [] j.name = "validateBug" -> validateBug(j.data)
      [] j.name = "validateTask" -> validateTask(j.data)
      [] j.name = "validateProjectData" -> validateProjectData(j.data)
      [] j.name = "validateProjectItem" -> validateProjectItem(j.data)
      [] j.name = "tryValidateFeature" -> tryValidateFeature(j.data)
      [] j.name = "tryValidateBug" -> tryValidateBug(j.data)
      [] j.name = "tryValidateTask" -> tryValidateTask(j.data)
      [] j.name = "canTransitionStatus" -> canTransitionStatus(j.data, j.arg)

Finished(p) ==
    /\ stack[p] # <<>>
    /\ Top(p).next > Len(Sites(Top(p), TopSchema(p)))

\* C13: any validator or try-validator called any number of times on the
\* same input returns the same outcome (same validity, same error list in
\* the same order) every time, and no call changes the input data.
C13_Idempotent ==
    /\ [](\A p \in Callers : returned[p] = first[p])
    /\ [][job' = job]_vars

C13_Witness ==
    /\ job[1].name = "tryValidateBug"
    /\ Get(first[1].value, "valid") = Bool(FALSE)
    /\ Len(stack[1]) = 1
    /\ Finished(1)
    /\ Len(store[ErrorList(1, 1)]) = 2
    /\ Get(first[1].value, "errors") =
            Arr([i \in 1..2 |-> Str(store[ErrorList(1, 1)][i])])

\* C14: in every interleaving of two or more calls that share the validator
\* instance, the schemas and the transition tables, each call returns
\* exactly the result it returns when run alone.
C14_ConcurrentCalls ==
    \A p \in Callers :
        returned[p] # NoOutcome => returned[p] = Alone(job[p])

C14_Witness ==
    /\ job[1].name = "validateTask"
    /\ job[2].name = "validateProjectData"
    /\ returned[1].kind = "throw"
    /\ Len(returned[1].errors) > 2
    /\ returned[2].kind = "throw"
    /\ Len(stack[1]) > 1
    /\ Len(stack[2]) > 1

RECURSIVE SchemaDepth(_)
\* The number of schema nodes on the longest path from the node down
SchemaDepth(schema) ==
    LET below ==
            (IF Has(schema, "items") THEN {SchemaDepth(schema.items)} ELSE {})
            \cup (IF Has(schema, "properties")
                  THEN {SchemaDepth(schema.properties[k]) :
                            k \in DOMAIN schema.properties}
                  ELSE {})
    IN  1 + (IF below = {} THEN 0
             ELSE CHOOSE m \in below : \A n \in below : n <= m)

\* No invocation of the running call is made twice
NoRevisit(p) ==
    \A i, j \in 1..Len(visits[p]) : i # j => visits[p][i] # visits[p][j]

\* The frames of the running call stand on distinct schema levels, at most
\* two on each (validateField and the validateSchema it hands an object to)
DepthBounded(p) ==
    stack[p] # <<>> =>
        /\ Cardinality({stack[p][i].spath : i \in 1..Len(stack[p])})
                <= SchemaDepth(Root(p))
        /\ \A i, j, k \in 1..Len(stack[p]) :
                (i < j /\ j < k) => stack[p][i].spath # stack[p][k].spath

---------------------------------------------------------------------------
(* Properties of the range-checked constructors, checked under TypesSpec *)

\* The number is less than the integer k
Below(n, k) ==
    \/ n.t = "number" /\ n.v < k
    \/ n.t = "half" /\ n.v < 2 * k
    \/ n = Infinity(-1)

\* The number is greater than the integer k
Above(n, k) ==
    \/ n.t = "number" /\ n.v > k
    \/ n.t = "half" /\ n.v > 2 * k
    \/ n = Infinity(1)

Raised(message) ==
    /\ outcome.kind = "throw"
    /\ outcome.name = "Error"
    /\ outcome.message = message

\* C16: createStoryPoints(n) raises 'Story points must be between 1 and 21'
\* for every n < 1 and every n > 21 and returns n for every n with
\* 1 <= n <= 21; createHours(n) raises 'Hours must be non-negative' for
\* every n < 0 and returns n for every n >= 0.
C16_RangeChecked ==
    /\ call = "createStoryPoints" =>
        /\ (Below(data, 1) \/ Above(data, 21))
            => Raised("Story points must be between 1 and 21")
        /\ (data # NaN /\ ~Below(data, 1) /\ ~Above(data, 21))
            => outcome = Return(data)
    /\ call = "createHours" =>
        /\ Below(data, 0) => Raised("Hours must be non-negative")
        /\ (data # NaN /\ ~Below(data, 0)) => outcome = Return(data)

C16_Witness ==
    /\ call = "createStoryPoints"
    /\ data = Num(21)
    /\ outcome = Return(Num(21))

---------------------------------------------------------------------------
(* Properties of the error lists and of the field checks, checked under    *)
(* Spec                                                                    *)

\* The error list the call raised; empty when it returned
RaisedErrors == IF outcome.kind = "throw" THEN outcome.errors ELSE <<>>

IsMissing(error) == StartsWith(error, "Missing required field: ")

\* The error is about the field: about its value, one of its elements or
\* something inside it
IsAbout(error, key) ==
    \/ StartsWith(error, key \o ": ")
    \/ StartsWith(error, key \o "[")
    \/ StartsWith(error, key \o ".")

\* The errors about the field, in the order of the list
ErrorsAbout(errors, key) == SelectSeq(errors, LAMBDA e : IsAbout(e, key))

\* The errors without the prefix
Strip(errors, prefix) ==
    [i \in 1..Len(errors) |-> SubSeq(errors[i], Len(prefix) + 1, Len(errors[i]))]

\* The positions of the record's fields that the error is about
Owners(error, value) ==
    {i \in 1..Len(value.v) : IsAbout(error, value.v[i][1])}

\* The positions of the array's elements that the error is about
Elements(error, key, elems) ==
    {k \in 1..Len(elems) :
        StartsWith(error, key \o "[" \o IntToString(k - 1) \o "]")}

RECURSIVE Ordered(_, _, _)
\* The errors of validating the record against the object schema are in
\* order: required fields first and in the order of the required list, then
\* the fields in the order the record holds them, elements by index, and
\* the same inside every nested record
Ordered(errors, value, schema) ==
    LET missing == SelectSeq(errors, IsMissing)
        property == SelectSeq(errors, LAMBDA e : ~IsMissing(e))
        absent == SelectSeq(schema.required,
                            LAMBDA f : \A i \in 1..Len(value.v) : value.v[i][1] # f)
    IN  /\ errors = missing \o property
        /\ missing = [i \in 1..Len(absent) |-> "Missing required field: " \o absent[i]]
        /\ \A i \in 1..Len(property) :
                Cardinality(Owners(property[i], value)) = 1
        /\ \A i, j \in 1..Len(property) :
                i < j => \A a \in Owners(property[i], value),
                            b \in Owners(property[j], value) : a <= b
        /\ \A f \in 1..Len(value.v) :
            LET key == value.v[f][1]
                field == value.v[f][2]
                about == ErrorsAbout(property, key)
            IN  key \in DOMAIN schema.properties =>
                    LET node == schema.properties[key]
                    IN  /\ (TypeIs(node, "object") /\ field.t = "object")
                            => Ordered(Strip(about, key \o "."), field, node)
                        /\ (TypeIs(node, "array") /\ field.t = "array") =>
                            /\ \A i, j \in 1..Len(about) :
                                i < j => \A a \in Elements(about[i], key, field.v),
                                            b \in Elements(about[j], key, field.v) :
                                                a <= b
                            /\ \A k \in 1..Len(field.v) :
                                LET label == key \o "[" \o IntToString(k - 1) \o "]"
                                IN  (Has(node, "items") /\ TypeIs(node.items, "object")
                                     /\ field.v[k].t = "object")
                                        => Ordered(Strip(ErrorsAbout(about, label),
                                                         label \o "."),
                                                   field.v[k], node.items)

\* C21: error ordering is deterministic: in the error list of an object
\* validation every `Missing required field` error precedes every property
\* error, the missing-field errors are in the declaration order of the
\* required list, the property errors are in the insertion order of the
\* record's own fields, and the errors of array elements are in increasing
\* index order.
C21_ErrorOrder ==
    (call \in TypedValidators /\ data.t = "object")
        => Ordered(RaisedErrors, data, SchemaOf(call))

C21_Witness ==
    /\ call = "validateProjectData"
    /\ data.t = "object"
    /\ ~In("bugs", data)
    /\ Len(RaisedErrors) = 7
    /\ RaisedErrors[1] = "Missing required field: bugs"
    /\ RaisedErrors[2] = "features[0].Missing required field: acceptanceCriteria"
    /\ RaisedErrors[3] = "features[0].type: Must be feature"
    /\ RaisedErrors[4] =
        "features[0].status: Must be one of backlog, planning, in-progress, testing, completed"
    /\ RaisedErrors[5] = "features[2].Missing required field: acceptanceCriteria"
    /\ RaisedErrors[6] = "features[2].type: Must be feature"

---------------------------------------------------------------------------
(* Properties of the array checks, checked under ValidatorSpec *)

\* The messages of the item-count and uniqueness constraints the sequence
\* violates, in the order minItems, maxItems, uniqueItems
ViolatedArrayConstraints(elems, schema, key) ==
    (IF Has(schema, "minItems") /\ Len(elems) < schema.minItems
     THEN <<key \o ": Minimum items is " \o IntToString(schema.minItems)>>
     ELSE <<>>)
    \o (IF Has(schema, "maxItems") /\ Len(elems) > schema.maxItems
        THEN <<key \o ": Maximum items is " \o IntToString(schema.maxItems)>>
        ELSE <<>>)
    \o (IF Has(schema, "uniqueItems") /\ schema.uniqueItems
            /\ \E i, j \in 1..Len(elems) :
                    i # j /\ elems[i] = elems[j]
                    /\ elems[i].t \notin {"array", "object"}
        THEN <<key \o ": Items must be unique">>
        ELSE <<>>)

\* The errors of one element against an item schema that declares strings
ElementErrors(elem, items, label) ==
    IF elem.t = "string"
    THEN ViolatedStringConstraints(elem.v, items, label)
    ELSE <<label \o ": Expected string, got " \o typeof(elem)>>

\* C22: for a field declared as an array whose value is a sequence, a length
\* below minItems or above maxItems yields a min/max-items error, two equal
\* primitive elements under uniqueItems yield `<field>: Items must be
\* unique`, and every element is then validated against the item schema
\* with its errors labelled `<field>[<index>]`; so a Feature with an empty
\* acceptanceCriteria, a Bug with an empty stepsToReproduce and a Task with a
\* repeated subtask id are rejected.
C22_ArrayChecks ==
    (call = "validate" /\ data.t = "object") =>
        /\ \A f \in 1..Len(data.v) :
            LET key == data.v[f][1]
                value == data.v[f][2]
                properties == SchemaNamed(arg.v).properties
                about == ErrorsAbout(ReturnedErrors, key)
            IN  (key \in DOMAIN properties /\ TypeIs(properties[key], "array")
                 /\ value.t = "array") =>
                    LET node == properties[key]
                        counted == ViolatedArrayConstraints(value.v, node, key)
                        elements ==
                            Flatten([k \in 1..Len(value.v) |->
                                ElementErrors(value.v[k], node.items,
                                    key \o "[" \o IntToString(k - 1) \o "]")])
                    IN  about = counted \o elements
        /\ (arg = Str("feature") /\ Get(data, "acceptanceCriteria") = Arr(<<>>))
            => Get(outcome.value, "valid") = Bool(FALSE)
        /\ (arg = Str("bug") /\ Get(data, "stepsToReproduce") = Arr(<<>>))
            => Get(outcome.value, "valid") = Bool(FALSE)
        /\ (arg = Str("task") /\ Get(data, "subtasks").t = "array"
            /\ \E i, j \in 1..Len(Get(data, "subtasks").v) :
                    /\ i # j
                    /\ Get(data, "subtasks").v[i] = Get(data, "subtasks").v[j]
                    /\ Get(data, "subtasks").v[i].t = "string")
            => Get(outcome.value, "valid") = Bool(FALSE)

C22_Witness ==
    /\ call = "validate"
    /\ arg = Str("tags")
    /\ data = Obj(<< <<"tags", Arr(<<Str("a"), Str(""), Str("a")>>)>> >>)
    /\ ReturnedErrors =
        <<"tags: Maximum items is 2", "tags: Items must be unique",
          "tags[1]: Minimum length is 1">>

---------------------------------------------------------------------------
(* Properties of nested records and nullable fields, checked under Spec *)

\* Every error with the prefix put before it
Prefixed(errors, prefix) == [i \in 1..Len(errors) |-> prefix \o errors[i]]

Metadata == Get(data, "metadata")

\* C23: nested object validation is the full object validation re-prefixed:
\* for a field declared as an object whose value is a structured record, the
\* errors the field contributes are exactly the errors of validating the
\* value against the field's schema as a root object, each prefixed with
\* `<field>.`; a ProjectData whose metadata.version does not match the
\* version pattern, or whose metadata lacks a required field, is rejected.
C23_NestedRePrefixed ==
    (call = "validateProjectData" /\ data.t = "object") =>
        /\ Metadata.t = "object" =>
            /\ ErrorsAbout(RaisedErrors, "metadata") =
                Prefixed(validate(Metadata, PROJECT_DATA_SCHEMA.properties.metadata).errors,
                         "metadata.")
            /\ (Get(Metadata, "version").t = "string"
                /\ ~RegExpTest(VERSION_PATTERN, Get(Metadata, "version").v))
                    => outcome.kind = "throw"
            /\ (\E f \in {"projectName", "version", "lastUpdated"} : ~In(f, Metadata))
                    => outcome.kind = "throw"
        /\ \A collection \in {"features", "bugs", "tasks"} :
            Get(data, collection).t = "array" =>
                \A k \in 1..Len(Get(data, collection).v) :
                    LET elem == Get(data, collection).v[k]
                        label == collection \o "[" \o IntToString(k - 1) \o "]"
                    IN  elem.t = "object" =>
                            ErrorsAbout(ErrorsAbout(RaisedErrors, collection), label) =
                                Prefixed(validate(elem,
                                    PROJECT_DATA_SCHEMA.properties[collection].items).errors,
                                    label \o ".")

C23_Witness ==
    /\ call = "validateProjectData"
    /\ Metadata.t = "object"
    /\ RaisedErrors =
        <<"metadata.Missing required field: lastUpdated",
          "metadata.version: Does not match pattern " \o VERSION_PATTERN>>
    /\ validateSchema(Metadata, PROJECT_DATA_SCHEMA.properties.metadata).errors =
        <<"Missing required field: lastUpdated",
          "version: Does not match pattern " \o VERSION_PATTERN>>

\* null is in the type set the schema node declares
Nullable(schema) == Has(schema, "type") /\ "null" \in DeclaredTypes(schema)

\* C24: for every field whose schema type set includes null (Feature.epic,
\* Bug.resolution) the value null produces no error, whatever other
\* constraints the schema declares; a null value for a field whose type set
\* does not include null produces a type error.
C24_NullableHandling ==
    (call \in TypedValidators /\ data.t = "object") =>
        \A f \in 1..Len(data.v) :
            LET key == data.v[f][1]
                properties == SchemaOf(call).properties
            IN  (key \in DOMAIN properties /\ data.v[f][2] = Null
                 /\ Has(properties[key], "type")) =>
                    IF Nullable(properties[key])
                    THEN ErrorsAbout(RaisedErrors, key) = <<>>
                    ELSE ErrorsAbout(RaisedErrors, key) =
                            <<key \o ": Expected " \o ExpectedType(properties[key])
                              \o ", got object">>

\* C25: constraints declared on a nullable string field are enforced for
\* non-null values: Feature.epic and Bug.resolution are declared with type
\* [string, null] and minLength 1, so validateFeature rejects a feature whose
\* epic is the empty string and validateBug rejects a bug whose resolution
\* is the empty string, each with a minimum-length error.
C25_NullableStringConstraints ==
    /\ (call = "validateFeature" /\ data.t = "object"
        /\ Get(data, "epic") = Str("")
        /\ FEATURE_SCHEMA.properties.epic.type = <<"string", "null">>
        /\ FEATURE_SCHEMA.properties.epic.minLength = 1)
        => /\ outcome.kind = "throw"
           /\ ErrorsAbout(RaisedErrors, "epic") = <<"epic: Minimum length is 1">>
    /\ (call = "validateBug" /\ data.t = "object"
        /\ Get(data, "resolution") = Str("")
        /\ BUG_SCHEMA.properties.resolution.type = <<"string", "null">>
        /\ BUG_SCHEMA.properties.resolution.minLength = 1)
        => /\ outcome.kind = "throw"
           /\ ErrorsAbout(RaisedErrors, "resolution") =
                <<"resolution: Minimum length is 1">>

\* The interface a typed validator narrows its argument to
Narrowed(validator) ==
    CASE validator = "validateFeature" -> Feature
      [] validator = "validateBug" -> Bug
      [] validator = "validateTask" -> Task

\* The value is of the kind an interface field declares
HasKind(value, kind) ==
    IF kind = "strings"
    THEN value.t = "array" /\ \A i \in 1..Len(value.v) : value.v[i].t = "string"
    ELSE value.t = kind

\* C26: acceptance implies conformance to the data model: whenever
\* validateFeature, validateBug or validateTask returns true, the value is a
\* non-null record in which every non-optional field of the kind's data
\* model is present with its declared kind, in particular `tags` is present
\* and is a sequence of strings; whenever validateProjectData returns true,
\* every element of features, bugs and tasks is a non-null record.
C26_AcceptanceImpliesConformance ==
    /\ (call \in EntityValidators /\ outcome = Return(Bool(TRUE))) =>
        /\ data.t = "object"
        /\ \A field \in DOMAIN Narrowed(call) :
            /\ In(field, data)
            /\ HasKind(Get(data, field), Narrowed(call)[field])
    /\ (call = "validateProjectData" /\ outcome = Return(Bool(TRUE))) =>
        /\ data.t = "object"
        /\ \A collection \in {"features", "bugs", "tasks"} :
            /\ Get(data, collection).t = "array"
            /\ \A k \in 1..Len(Get(data, collection).v) :
                    Get(data, collection).v[k].t = "object"

---------------------------------------------------------------------------
(* Properties of the workflows, checked under WorkflowSpec *)

\* The place of a status in the pipeline backlog, planning, in-progress,
\* testing, completed
Stage(status) ==
    CHOOSE i \in 1..Len(FEATURE_STATUSES) : Str(FEATURE_STATUSES[i]) = status

\* The number of status changes the item has gone through
Transitions == Len(trail) - 1

\* C27: in every sequence of permitted Feature transitions starting from
\* 'backlog' each step moves one stage forward or one stage back in the
\* pipeline backlog, planning, in-progress, testing, completed; so
\* 'completed' is entered only from 'testing', a run that reaches
\* 'completed' has visited planning, in-progress and testing in that order
\* before, and it takes at least four transitions.
C27_FeaturePipeline ==
    (Tag = Str("feature") /\ trail[1] = Str("backlog")) =>
        /\ \A i \in 1..Transitions :
            /\ Stage(trail[i + 1]) - Stage(trail[i]) \in {1, -1}
            /\ trail[i + 1] = Str("completed") => trail[i] = Str("testing")
        /\ Status = Str("completed") =>
            /\ \E a, b, c \in 1..Transitions :
                /\ a < b /\ b < c
                /\ trail[a] = Str("planning")
                /\ trail[b] = Str("in-progress")
                /\ trail[c] = Str("testing")
            /\ Transitions >= 4

C27_Witness ==
    /\ Tag = Str("feature")
    /\ trail = <<Str("backlog"), Str("planning"), Str("in-progress"),
                 Str("testing"), Str("completed")>>
    /\ Status = Str("completed")

\* The check of the kind answers true
Permits(kind, from, to) ==
    Return(Bool(TRUE)) =
        CASE kind = "feature" -> canTransitionFeatureStatus(Str(from), Str(to))
          [] kind = "bug" -> canTransitionBugStatus(Str(from), Str(to))
          [] kind = "task" -> canTransitionTaskStatus(Str(from), Str(to))

StatusesOf(kind) ==
    CASE kind = "feature" -> Range(FEATURE_STATUSES)
      [] kind = "bug" -> Range(BUG_STATUSES)
      [] kind = "task" -> Range(TASK_STATUSES)

RECURSIVE ReachableWithin(_, _, _)
\* The statuses an item of the kind gets to from the status by at most n
\* permitted transitions
ReachableWithin(kind, from, n) ==
    IF n = 0 THEN {from}
    ELSE LET nearer == ReachableWithin(kind, from, n - 1)
         IN  nearer \cup {to \in StatusesOf(kind) :
                            \E via \in nearer : Permits(kind, via, to)}

\* C28: the Bug workflow has no dead end: every Bug status has at least one
\* permitted transition, every status other than 'open' can transition
\* directly to 'open', every Bug status is reachable from every other by
\* permitted transitions; 'closed' is entered only from 'resolved' and
\* 'wont-fix' only from 'open'.
C28_BugNoDeadEnd ==
    (Tag = Str("bug") /\ Status.v \in Range(BUG_STATUSES)) =>
        /\ \E to \in StatusArgs : canTransitionStatus(data, to) = Return(Bool(TRUE))
        /\ Status # Str("open")
            => canTransitionStatus(data, Str("open")) = Return(Bool(TRUE))
        /\ ReachableWithin("bug", Status.v, MaxSteps) = Range(BUG_STATUSES)
        /\ \A i \in 1..Transitions :
            /\ trail[i + 1] = Str("closed") => trail[i] = Str("resolved")
            /\ trail[i + 1] = Str("wont-fix") => trail[i] = Str("open")

C28_Witness ==
    /\ Tag = Str("bug")
    /\ trail = <<Str("wont-fix"), Str("open"), Str("in-progress"),
                 Str("resolved"), Str("closed")>>
    /\ call = "canTransitionStatus"
    /\ arg = Str("open")
    /\ outcome = Return(Bool(TRUE))

\* C29: in the Task workflow 'completed' is entered only from 'in-progress'
\* (never directly from 'todo' or 'blocked'), and from every Task status
\* other than 'completed' the status 'completed' is reachable by permitted
\* transitions, so the only status with no outgoing transition is
\* 'completed'.
C29_TaskCompletion ==
    (Tag = Str("task") /\ Status.v \in Range(TASK_STATUSES)) =>
        /\ \A i \in 1..Transitions :
                trail[i + 1] = Str("completed") => trail[i] = Str("in-progress")
        /\ \A from \in {"todo", "blocked"} :
                canTransitionTaskStatus(Str(from), Str("completed"))
                    = Return(Bool(FALSE))
        /\ Status # Str("completed")
            => "completed" \in ReachableWithin("task", Status.v, MaxSteps)
        /\ (Status = Str("completed"))
            <=> \A to \in StatusArgs :
                    canTransitionStatus(data, to) = Return(Bool(FALSE))

C29_Witness ==
    /\ Tag = Str("task")
    /\ trail = <<Str("blocked"), Str("todo"), Str("in-progress"), Str("completed")>>
    /\ call = "canTransitionStatus"
    /\ arg = Str("todo")
    /\ outcome = Return(Bool(FALSE))

TableOf(kind) ==
    CASE kind = "feature" -> FEATURE_STATUS_TRANSITIONS
      [] kind = "bug" -> BUG_STATUS_TRANSITIONS
      [] kind = "task" -> TASK_STATUS_TRANSITIONS

CheckOf(kind) ==
    CASE kind = "feature" -> "canTransitionFeatureStatus"
      [] kind = "bug" -> "canTransitionBugStatus"
      [] kind = "task" -> "canTransitionTaskStatus"

\* C30: the transition tables are closed and irreflexive: for every kind the
\* table has an entry for every status of the kind's status list and no
\* other key, every target of an entry is a status of the same kind, no
\* entry lists a target twice and no status lists itself; so
\* canTransition<K>Status(s, s) is false for every status s and a run of
\* permitted transitions stays within the kind's status set.
C30_TablesClosedIrreflexive ==
    \A kind \in {"feature", "bug", "task"} :
        /\ DOMAIN TableOf(kind) = StatusesOf(kind)
        /\ \A s \in DOMAIN TableOf(kind) :
            LET targets == TableOf(kind)[s]
            IN  /\ Range(targets) \subseteq StatusesOf(kind)
                /\ \A i, j \in 1..Len(targets) : i # j => targets[i] # targets[j]
                /\ s \notin Range(targets)
        /\ (call = CheckOf(kind) /\ Status.v \in StatusesOf(kind) /\ arg = Status)
            => outcome = Return(Bool(FALSE))
        /\ (call = "canTransitionStatus" /\ Tag = Str(kind)
            /\ Status.v \in StatusesOf(kind) /\ arg = Status)
            => outcome = Return(Bool(FALSE))
        /\ (Tag = Str(kind) /\ trail[1].v \in StatusesOf(kind))
            => \A i \in 1..Len(trail) :
                /\ trail[i].v \in StatusesOf(kind)
                /\ i < Len(trail) => trail[i + 1] # trail[i]

C30_Witness ==
    /\ Tag = Str("bug")
    /\ Transitions >= 3
    /\ Status = Str("open")
    /\ call = "canTransitionBugStatus"
    /\ arg = Status
    /\ outcome = Return(Bool(FALSE))

=============================================================================
